---- MODULE Spec2Model ----
(***************************************************************************)
(* Marsyas songbook: the ChordPro line parser, document parser, editable   *)
(* song serializer and chord transposer, modelled from the TypeScript      *)
(* sources.  A JavaScript string is a sequence of one-character strings;   *)
(* string indices of the source are 0-based and are kept 0-based in every  *)
(* stored position, while Sequences are indexed from 1.                    *)
(***************************************************************************)
EXTENDS Integers, Sequences, FiniteSets, TLC

VARIABLES
    pc,            \* position of the scenario being run
    raw,       \* line scenario: the raw ChordPro line
    parsedLine,    \* line scenario: parseLine(raw)
    lineText,      \* line scenario: insertChordsIntoLine(lyrics, chords)
    reparsedLine,  \* line scenario: parseLine(lineText)
    inputChord,    \* transposer scenario: the chord string
    semitonesA,    \* transposer scenario: the first shift
    semitonesB,    \* transposer scenario: the second shift
    call,          \* transposer scenario: locals of transposeChord(chord, semitonesA)
    once,          \* transposer scenario: transposeChord(chord, semitonesA)
    twice,         \* transposer scenario: transposeChord(once, semitonesB)
    direct,        \* transposer scenario: transposeChord(chord, semitonesA + semitonesB)
    content,       \* document scenario: the ChordPro text given to parseChordPro
    lines,         \* parseChordPro: content.split(/\r?\n/)
    lineNo,        \* parseChordPro: number of lines the for loop has consumed
    song,          \* parseChordPro: the song being built, then returned
    currentSection, \* parseChordPro: the accumulating section
    inSection,     \* parseChordPro: inside an explicit section
    editable,      \* document scenario: toEditableSong(song)
    output,        \* document scenario: fromEditableSong(editable)
    again,         \* document scenario: parseChordPro(output)
    resultLines,   \* copyChordsToSections: result, the output lines so far
    firstVerseChords,  \* copyChordsToSections: pattern of the first verse, or null
    firstChorusChords, \* copyChordsToSections: pattern of the first chorus, or null
    copySection,   \* copyChordsToSections: its currentSection (verse, chorus or null)
    currentSectionLines, \* copyChordsToSections: lines collected in the open block
    verseCount,    \* copyChordsToSections: verses closed so far
    chorusCount,   \* copyChordsToSections: choruses closed so far
    sharedMemoryStorage, \* song-storage-runtime.ts: the map from path to content
    saves,         \* storage scenario: the locals of each saveSongWithRename call
    storedAtStart  \* storage scenario: the map before the first call

lineVars == <<raw, parsedLine, lineText, reparsedLine>>

chordVars == <<inputChord, semitonesA, semitonesB, call, once, twice, direct>>

parserVars == <<lines, lineNo, song, currentSection, inSection>>

docVars == <<content, parserVars, editable, output, again>>

copyVars == <<resultLines, firstVerseChords, firstChorusChords, copySection,
              currentSectionLines, verseCount, chorusCount>>

storageVars == <<sharedMemoryStorage, saves, storedAtStart>>

vars == <<pc, lineVars, chordVars, docVars, copyVars, storageVars>>

----------------------------------------------------------------------------
(* Bounds of the model *)

\* longest enumerated raw line, in characters
MaxLineLen == 5

\* most chord tokens in an enumerated chords-only line
MaxTokens == 3

\* longest enumerated chord string, in characters
MaxChordLen == 3

\* largest shift, in semitones, up or down
MaxSemitones == 12

\* most lines in an enumerated document
MaxDocLines == 3

\* longest lyrics of an enumerated edited line, in characters
MaxLyricsLen == 2

\* most chords on an enumerated edited line
MaxEditedChords == 2

\* largest chord position of an enumerated edited line
MaxPosition == 10

\* the limit of the filename counter: stands for the 10000 of
\* generateUniqueFilename, so the suffixes are 1 .. CounterLimit - 1
CounterLimit == 3

\* largest value of an enumerated capo or tempo directive
MaxNumber == 12

\* most spaces around the name and the value of an enumerated directive
MaxPad == 1

\* most blocks in an enumerated chord-copy document
MaxBlocks == 2

\* most lines between the directives of an enumerated block
MaxBlockLines == 2

----------------------------------------------------------------------------
(* Strings *)

Min(a, b) == IF a < b THEN a ELSE b

Max(a, b) == IF a > b THEN a ELSE b

\* all sequences over S of length at most n
SeqsUpTo(S, n) == UNION {[1..k -> S] : k \in 0..n}

\* String.prototype.slice(from, to) / substring(from, to), 0-based, to exclusive
Slice(s, from, to) == SubSeq(s, Min(from, Len(s)) + 1, Min(to, Len(s)))

\* String.prototype.slice(from), 0-based
SliceFrom(s, from) == SubSeq(s, Min(from, Len(s)) + 1, Len(s))

Spaces(n) == [i \in 1..n |-> " "]

----------------------------------------------------------------------------
(* chordpro-parser.ts: parseLine *)

\* first index j > i (1-based) holding "]", or 0
NextClose(line, i) ==
    IF \E j \in (i + 1)..Len(line) : line[j] = "]"
    THEN CHOOSE j \in (i + 1)..Len(line) :
            /\ line[j] = "]"
            /\ \A k \in (i + 1)..(j - 1) : line[k] # "]"
    ELSE 0

\* /\[([^\]]+)\] ?/ matches at 1-based index i
MatchesAt(line, i) ==
    /\ i \in 1..Len(line)
    /\ line[i] = "["
    /\ NextClose(line, i) >= i + 2

\* chordRegex.exec(line) with the regex's lastIndex = from (0-based):
\* the leftmost match at or after from, or found = FALSE
RegexExec(line, from) ==
    IF \E i \in (from + 1)..Len(line) : MatchesAt(line, i)
    THEN LET i == CHOOSE i \in (from + 1)..Len(line) :
                    /\ MatchesAt(line, i)
                    /\ \A k \in (from + 1)..(i - 1) : ~MatchesAt(line, k)
             j == NextClose(line, i)
             space == IF j < Len(line) /\ line[j + 1] = " " THEN 1 ELSE 0
         IN [found  |-> TRUE,
             index  |-> i - 1,                    \* match.index
             group  |-> SubSeq(line, i + 1, j - 1), \* match[1]
             length |-> (j - i + 1) + space]       \* match[0].length
    ELSE [found |-> FALSE, index |-> 0, group |-> <<>>, length |-> 0]

\* a parser that records the raw-line index of the bracket instead
RawIndexPosition(position, m) == m.index

\* the position recorded for a chord (chordpro-parser.ts:31)
ChordPositionOf(position, m) == position

RECURSIVE ParseLineLoop(_, _, _, _, _)
ParseLineLoop(line, lastIndex, lyrics, position, chords) ==
    LET m == RegexExec(line, lastIndex)
    IN IF ~m.found
       THEN [lyrics |-> lyrics \o SliceFrom(line, lastIndex), chords |-> chords]
       ELSE LET textBefore == Slice(line, lastIndex, m.index)
                newPos == position + Len(textBefore)
            IN ParseLineLoop(line,
                             m.index + m.length,
                             lyrics \o textBefore,
                             newPos,
                             Append(chords, [chord |-> m.group,
                                             position |-> ChordPositionOf(newPos, m)]))

ParseLine(line) == ParseLineLoop(line, 0, <<>>, 0, <<>>)

----------------------------------------------------------------------------
(* editable-song.ts: insertChordsIntoLine *)

\* tail room the serializer allows past the end of the lyrics
TailRoom == 20

\* tail room for a line with no lyrics
EmptyTailRoom == 40

Clamp(value, min, max) == Max(min, Min(max, value))

\* [...chords].sort((a, b) => b.position - a.position): stable, descending
RECURSIVE InsertSorted(_, _)
InsertSorted(sorted, c) ==
    IF sorted = <<>> THEN <<c>>
    ELSE IF Head(sorted).position >= c.position
         THEN <<Head(sorted)>> \o InsertSorted(Tail(sorted), c)
         ELSE <<c>> \o sorted

RECURSIVE SortDescending(_)
SortDescending(chords) ==
    IF chords = <<>> THEN <<>>
    ELSE InsertSorted(SortDescending(SubSeq(chords, 1, Len(chords) - 1)),
                      chords[Len(chords)])

\* needsSpace (editable-song.ts:187)
NeedsSpace(result, pos) == pos < Len(result) /\ result[pos + 1] # " "

RECURSIVE InsertLoop(_, _, _)
InsertLoop(result, sorted, maxLen) ==
    IF sorted = <<>> THEN result
    ELSE LET chord == Head(sorted)
             pos == Clamp(chord.position, 0, Max(Len(result), maxLen))
             chordToken == IF NeedsSpace(result, pos)
                           THEN <<"[">> \o chord.chord \o <<"]", " ">>
                           ELSE <<"[">> \o chord.chord \o <<"]">>
         IN InsertLoop(Slice(result, 0, pos) \o chordToken \o SliceFrom(result, pos),
                       Tail(sorted), maxLen)

InsertChordsIntoLine(text, chords) ==
    IF chords = <<>> THEN text
    ELSE InsertLoop(text, SortDescending(chords),
                    IF Len(text) > 0 THEN Len(text) + TailRoom ELSE EmptyTailRoom)

\* toEditableLine's chord mapping: id, chord, position
ToEditableChords(chords, sectionIndex, lineIndex) ==
    [cIdx \in 1..Len(chords) |->
        [id |-> <<"chord", sectionIndex, lineIndex, cIdx - 1>>,
         chord |-> chords[cIdx].chord,
         position |-> chords[cIdx].position]]

----------------------------------------------------------------------------
(* chord-transpose.ts *)

NOTES_SHARP ==
    << <<"C">>, <<"C", "#">>, <<"D">>, <<"D", "#">>, <<"E">>, <<"F">>,
       <<"F", "#">>, <<"G">>, <<"G", "#">>, <<"A">>, <<"A", "#">>, <<"B">> >>

FlatNames == { <<"D", "b">>, <<"E", "b">>, <<"G", "b">>, <<"A", "b">>, <<"B", "b">> }

SharpNames == { <<"C", "#">>, <<"D", "#">>, <<"F", "#">>, <<"G", "#">>, <<"A", "#">> }

\* FLAT_TO_SHARP[note], for note in FlatNames
FLAT_TO_SHARP(note) ==
    CASE note = <<"D", "b">> -> <<"C", "#">>
      [] note = <<"E", "b">> -> <<"D", "#">>
      [] note = <<"G", "b">> -> <<"F", "#">>
      [] note = <<"A", "b">> -> <<"G", "#">>
      [] note = <<"B", "b">> -> <<"A", "#">>

\* SHARP_TO_FLAT[note], for note in SharpNames
SHARP_TO_FLAT(note) ==
    CASE note = <<"C", "#">> -> <<"D", "b">>
      [] note = <<"D", "#">> -> <<"E", "b">>
      [] note = <<"F", "#">> -> <<"G", "b">>
      [] note = <<"G", "#">> -> <<"A", "b">>
      [] note = <<"A", "#">> -> <<"B", "b">>

Whitespace == {" ", "\t", "\n", "\r"}

\* s.trim() === ''
IsBlank(s) == \A i \in 1..Len(s) : s[i] \in Whitespace

\* s.indexOf(c), 0-based, -1 when absent
IndexOf(s, c) ==
    IF \E i \in 1..Len(s) : s[i] = c
    THEN (CHOOSE i \in 1..Len(s) : s[i] = c /\ \A k \in 1..(i - 1) : s[k] # c) - 1
    ELSE -1

RootLetters == {"A", "B", "C", "D", "E", "F", "G"}

\* parseChord: ok = FALSE is the null result; hasBass = FALSE is bass undefined
ParseChord(c) ==
    IF c = <<>> \/ IsBlank(c)
    THEN [ok |-> FALSE, root |-> <<>>, quality |-> <<>>, hasBass |-> FALSE, bass |-> <<>>]
    ELSE LET slashIndex == IndexOf(c, "/")
             mainPart == IF slashIndex > 0 THEN Slice(c, 0, slashIndex) ELSE c
             hasBass == slashIndex > 0
             bass == IF slashIndex > 0 THEN SliceFrom(c, slashIndex + 1) ELSE <<>>
             \* /^([A-G][#b]?)/
             rootLen == IF Len(mainPart) >= 1 /\ mainPart[1] \in RootLetters
                        THEN IF Len(mainPart) >= 2 /\ mainPart[2] \in {"#", "b"}
                             THEN 2 ELSE 1
                        ELSE 0
         IN IF rootLen = 0
            THEN [ok |-> FALSE, root |-> <<>>, quality |-> <<>>,
                  hasBass |-> FALSE, bass |-> <<>>]
            ELSE [ok |-> TRUE,
                  root |-> Slice(mainPart, 0, rootLen),
                  quality |-> SliceFrom(mainPart, rootLen),
                  hasBass |-> hasBass,
                  bass |-> bass]

\* getNoteIndex: 0..11, or -1 for a name that is not in the tables
GetNoteIndex(note) ==
    LET normalized == IF note \in FlatNames THEN FLAT_TO_SHARP(note) ELSE note
    IN IF \E i \in 1..12 : NOTES_SHARP[i] = normalized
       THEN (CHOOSE i \in 1..12 : NOTES_SHARP[i] = normalized) - 1
       ELSE -1

\* JavaScript's %: the remainder takes the sign of the dividend
JsRem(a, n) == IF a >= 0 THEN a % n ELSE -((-a) % n)

\* an index normalisation that mirrors a negative index instead of wrapping it
MirrorIndex(index) == IF index < 0 THEN (-index) % 12 ELSE index % 12

\* ((index % 12) + 12) % 12
NormalizeIndex(index) == JsRem(JsRem(index, 12) + 12, 12)

GetNoteFromIndex(index, preferFlats) ==
    LET sharpNote == NOTES_SHARP[NormalizeIndex(index) + 1]
    IN IF preferFlats /\ sharpNote \in SharpNames
       THEN SHARP_TO_FLAT(sharpNote)
       ELSE sharpNote

\* a spelling test that never reports a flat
NeverFlat(note) == FALSE

\* isFlat: note.includes('b')
IsFlat(note) == \E i \in 1..Len(note) : note[i] = "b"

TransposeNote(note, semitones) ==
    LET index == GetNoteIndex(note)
    IN IF index < 0 THEN note
       ELSE GetNoteFromIndex(index + semitones, IsFlat(note))

\* transposeChord with its locals: early is TRUE when it returned the chord
\* as given (semitones === 0, or parseChord returned null)
TransposeChordCall(c, semitones) ==
    LET parsed == ParseChord(c)
    IN IF semitones = 0 \/ ~parsed.ok
       THEN [early |-> TRUE, parsed |-> parsed, newRoot |-> <<>>,
             newBass |-> <<>>, result |-> c]
       ELSE LET newRoot == TransposeNote(parsed.root, semitones)
                \* if (parsed.bass): undefined and '' are both falsy
                withBass == parsed.hasBass /\ parsed.bass # <<>>
                newBass == IF withBass THEN TransposeNote(parsed.bass, semitones)
                           ELSE <<>>
            IN [early |-> FALSE, parsed |-> parsed, newRoot |-> newRoot,
                newBass |-> newBass,
                result |-> IF withBass
                           THEN newRoot \o parsed.quality \o <<"/">> \o newBass
                           ELSE newRoot \o parsed.quality]

TransposeChord(c, semitones) == TransposeChordCall(c, semitones).result

----------------------------------------------------------------------------
(* chordpro-parser.ts: parseDirective, normalizeDirective, parseChordPro *)

\* an optional value: <<>> is undefined, <<v>> is the value v
Undefined == <<>>

Some(v) == <<v>>

UpperCase ==
    <<"A", "B", "C", "D", "E", "F", "G", "H", "I", "J", "K", "L", "M",
      "N", "O", "P", "Q", "R", "S", "T", "U", "V", "W", "X", "Y", "Z">>

LowerCase ==
    <<"a", "b", "c", "d", "e", "f", "g", "h", "i", "j", "k", "l", "m",
      "n", "o", "p", "q", "r", "s", "t", "u", "v", "w", "x", "y", "z">>

\* a parser that compares directive names as they are written
KeepCase(s) == s

ToLowerCase(s) ==
    [i \in 1..Len(s) |->
        IF \E k \in 1..26 : UpperCase[k] = s[i]
        THEN LowerCase[CHOOSE k \in 1..26 : UpperCase[k] = s[i]]
        ELSE s[i]]

\* String.prototype.trim
Trim(s) ==
    IF IsBlank(s) THEN <<>>
    ELSE LET first == CHOOSE i \in 1..Len(s) :
                        s[i] \notin Whitespace /\ \A k \in 1..(i - 1) : s[k] \in Whitespace
             last == CHOOSE i \in 1..Len(s) :
                        s[i] \notin Whitespace /\ \A k \in (i + 1)..Len(s) : s[k] \in Whitespace
         IN SubSeq(s, first, last)

StartsWith(s, prefix) ==
    Len(s) >= Len(prefix) /\ SubSeq(s, 1, Len(prefix)) = prefix

\* content.split(/\r?\n/)
RECURSIVE Split(_)
Split(text) ==
    IF \A i \in 1..Len(text) : text[i] # "\n" THEN <<text>>
    ELSE LET n == CHOOSE i \in 1..Len(text) :
                    text[i] = "\n" /\ \A k \in 1..(i - 1) : text[k] # "\n"
             end == IF n > 1 /\ text[n - 1] = "\r" THEN n - 2 ELSE n - 1
         IN <<SubSeq(text, 1, end)>> \o Split(SubSeq(text, n + 1, Len(text)))

\* lines.join('\n')
RECURSIVE Join(_)
Join(ls) ==
    IF ls = <<>> THEN <<>>
    ELSE IF Len(ls) = 1 THEN ls[1]
    ELSE ls[1] \o <<"\n">> \o Join(Tail(ls))

\* what '.' does not match
LineTerminators == {"\n", "\r"}

NoDirective == [found |-> FALSE, name |-> <<>>, value |-> <<>>]

\* line.match(/^\{([^:}]+)(?::\s*(.*))?}\s*$/), then trim and lower-case
ParseDirective(line) ==
    IF Len(line) < 2 \/ line[1] # "{" THEN NoDirective
    ELSE LET \* [^:}]+ is greedy: the run of name characters after '{'
             stop == IF \E i \in 2..Len(line) : line[i] \in {":", "}"}
                     THEN CHOOSE i \in 2..Len(line) :
                            /\ line[i] \in {":", "}"}
                            /\ \A k \in 2..(i - 1) : line[k] \notin {":", "}"}
                     ELSE 0
             name == SubSeq(line, 2, stop - 1)
         IN IF stop = 0 \/ name = <<>> THEN NoDirective
            ELSE IF line[stop] = "}"
            THEN \* no value group: '}' then \s*$
                 IF IsBlank(SubSeq(line, stop + 1, Len(line)))
                 THEN [found |-> TRUE, name |-> ToLowerCase(Trim(name)), value |-> <<>>]
                 ELSE NoDirective
            ELSE \* ':' \s* (.*) then the last '}' then \s*$
                 LET close == CHOOSE i \in stop..Len(line) :
                                \/ /\ i > stop
                                   /\ line[i] = "}"
                                   /\ \A k \in (i + 1)..Len(line) : line[k] # "}"
                                \/ /\ i = stop
                                   /\ \A k \in (stop + 1)..Len(line) : line[k] # "}"
                     region == SubSeq(line, stop + 1, close - 1)
                 IN IF close = stop
                       \/ ~IsBlank(SubSeq(line, close + 1, Len(line)))
                       \/ \E i \in 1..Len(Trim(region)) : Trim(region)[i] \in LineTerminators
                    THEN NoDirective
                    ELSE [found |-> TRUE, name |-> ToLowerCase(Trim(name)),
                          value |-> Trim(region)]

\* the keys of the aliases object that are not its own: aliases[key] is then
\* inherited from Object.prototype and is not a string
InheritedKeys == { <<"c", "o", "n", "s", "t", "r", "u", "c", "t", "o", "r">>, <<"_", "_", "p", "r", "o", "t", "o", "_", "_">> }

\* normalizeDirective, for a name outside InheritedKeys
NormalizeDirective(directive) ==
    CASE directive = <<"t">> -> <<"t", "i", "t", "l", "e">>
      [] directive = <<"s", "t">> -> <<"s", "u", "b", "t", "i", "t", "l", "e">>
      [] directive = <<"s", "u">> -> <<"s", "u", "b", "t", "i", "t", "l", "e">>
      [] directive = <<"c">> -> <<"c", "o", "m", "m", "e", "n", "t">>
      [] directive = <<"c", "i">> -> <<"c", "o", "m", "m", "e", "n", "t", "_", "i", "t", "a", "l", "i", "c">>
      [] directive = <<"c", "b">> -> <<"c", "o", "m", "m", "e", "n", "t", "_", "b", "o", "x">>
      [] directive = <<"s", "o", "c">> -> <<"s", "t", "a", "r", "t", "_", "o", "f", "_", "c", "h", "o", "r", "u", "s">>
      [] directive = <<"e", "o", "c">> -> <<"e", "n", "d", "_", "o", "f", "_", "c", "h", "o", "r", "u", "s">>
      [] directive = <<"s", "o", "v">> -> <<"s", "t", "a", "r", "t", "_", "o", "f", "_", "v", "e", "r", "s", "e">>
      [] directive = <<"e", "o", "v">> -> <<"e", "n", "d", "_", "o", "f", "_", "v", "e", "r", "s", "e">>
      [] directive = <<"s", "o", "b">> -> <<"s", "t", "a", "r", "t", "_", "o", "f", "_", "b", "r", "i", "d", "g", "e">>
      [] directive = <<"e", "o", "b">> -> <<"e", "n", "d", "_", "o", "f", "_", "b", "r", "i", "d", "g", "e">>
      [] directive = <<"s", "o", "t">> -> <<"s", "t", "a", "r", "t", "_", "o", "f", "_", "t", "a", "b">>
      [] directive = <<"e", "o", "t">> -> <<"e", "n", "d", "_", "o", "f", "_", "t", "a", "b">>
      [] OTHER -> directive

Digits == <<"0", "1", "2", "3", "4", "5", "6", "7", "8", "9">>

IsDigit(c) == \E d \in 1..10 : Digits[d] = c

DigitValue(c) == (CHOOSE d \in 1..10 : Digits[d] = c) - 1

RECURSIVE DigitsValue(_, _)
DigitsValue(s, acc) ==
    IF s = <<>> \/ ~IsDigit(Head(s)) THEN acc
    ELSE DigitsValue(Tail(s), 10 * acc + DigitValue(Head(s)))

\* parseInt(value, 10) || undefined: NaN and 0 both become undefined
ParseIntOrUndefined(value) ==
    LET t == Trim(value)
        signed == t # <<>> /\ t[1] \in {"+", "-"}
        digits == IF signed THEN Tail(t) ELSE t
    IN IF digits = <<>> \/ ~IsDigit(digits[1]) THEN Undefined
       ELSE LET n == DigitsValue(digits, 0)
            IN IF n = 0 THEN Undefined
               ELSE IF signed /\ t[1] = "-" THEN Some(-n) ELSE Some(n)

NONE == <<"n", "o", "n", "e">>

START_OF == <<"s", "t", "a", "r", "t", "_", "o", "f", "_">>

END_OF == <<"e", "n", "d", "_", "o", "f", "_">>

EmptySong ==
    [title |-> Undefined, subtitle |-> Undefined, artist |-> Undefined,
     key |-> Undefined, capo |-> Undefined, tempo |-> Undefined, sections |-> <<>>]

FreshSection(type, label) == [type |-> type, label |-> label, lines |-> <<>>]

EmptyLine == [lyrics |-> <<>>, chords |-> <<>>]

\* the parser's state before the first line
ParserStart ==
    [song |-> EmptySong, currentSection |-> FreshSection(NONE, Undefined),
     inSection |-> FALSE, threw |-> FALSE]

\* a parser that pushes the accumulating section whatever it holds
PushAlways(sng, section) == [sng EXCEPT !.sections = Append(@, section)]

\* if (currentSection.lines.length > 0) song.sections.push(currentSection)
PushIfContent(sng, section) ==
    IF Len(section.lines) > 0
    THEN [sng EXCEPT !.sections = Append(@, section)]
    ELSE sng

\* a parser that puts the new Line before the section's other lines
PrependLine(st, line) ==
    [st EXCEPT !.currentSection.lines = <<line>> \o @]

AppendLine(st, line) ==
    [st EXCEPT !.currentSection.lines = Append(@, line)]

\* a parser that keeps an empty line only inside an explicit section
KeepsEmptyLineInSectionOnly(st) == st.inSection

\* if (inSection || currentSection.lines.length > 0)
KeepsEmptyLine(st) == st.inSection \/ Len(st.currentSection.lines) > 0

\* a parser for which an empty line ends the accumulating section
EmptyLineBreaksSection(st) ==
    [st EXCEPT !.song = PushIfContent(st.song, st.currentSection),
               !.currentSection = FreshSection(st.currentSection.type,
                                               st.currentSection.label)]

\* currentSection.lines.push({ lyrics: '', chords: [] })
PushEmptyLine(st) == AppendLine(st, EmptyLine)

\* one pass of the for loop's body over rawLine
LineStep(st, rawLine) ==
    LET trimmed == Trim(rawLine)
        directive == ParseDirective(trimmed)
    IN IF StartsWith(trimmed, <<"#">>) THEN st
       ELSE IF directive.found
       THEN IF directive.name \in InheritedKeys
            THEN \* normalizedName is not a string: the switch matches nothing
                 \* and normalizedName.startsWith throws a TypeError
                 [st EXCEPT !.threw = TRUE]
            ELSE
            LET normalizedName == NormalizeDirective(directive.name)
                value == directive.value
            IN CASE normalizedName = <<"t", "i", "t", "l", "e">> -> [st EXCEPT !.song.title = Some(value)]
                 [] normalizedName = <<"s", "u", "b", "t", "i", "t", "l", "e">> -> [st EXCEPT !.song.subtitle = Some(value)]
                 [] normalizedName = <<"a", "r", "t", "i", "s", "t">> -> [st EXCEPT !.song.artist = Some(value)]
                 [] normalizedName = <<"k", "e", "y">> -> [st EXCEPT !.song.key = Some(value)]
                 [] normalizedName = <<"c", "a", "p", "o">> ->
                        [st EXCEPT !.song.capo = ParseIntOrUndefined(value)]
                 [] normalizedName = <<"t", "e", "m", "p", "o">> ->
                        [st EXCEPT !.song.tempo = ParseIntOrUndefined(value)]
                 [] OTHER ->
                    IF StartsWith(normalizedName, START_OF)
                    THEN [st EXCEPT
                            !.song = PushIfContent(st.song, st.currentSection),
                            !.currentSection =
                                FreshSection(SliceFrom(normalizedName, Len(START_OF)),
                                             IF value = <<>> THEN Undefined ELSE Some(value)),
                            !.inSection = TRUE]
                    ELSE IF StartsWith(normalizedName, END_OF)
                    THEN [st EXCEPT
                            !.song = PushIfContent(st.song, st.currentSection),
                            !.currentSection = FreshSection(NONE, Undefined),
                            !.inSection = FALSE]
                    ELSE st
       ELSE IF trimmed = <<>>
       THEN IF KeepsEmptyLine(st)
            THEN PushEmptyLine(st)
            ELSE st
       ELSE AppendLine(st, ParseLine(rawLine))

\* a parser that returns without looking at the accumulating section
ForgetFinalSection(st) == st.song

\* after the loop: add the final section if it has content, return the song
FinalSong(st) == PushIfContent(st.song, st.currentSection)

RECURSIVE ParseLoop(_, _)
ParseLoop(st, ls) ==
    IF ls = <<>> \/ st.threw THEN st
    ELSE ParseLoop(LineStep(st, Head(ls)), Tail(ls))

\* parseChordPro(text): threw = TRUE when it throws, else the song returned
ParseChordPro(text) ==
    LET st == ParseLoop(ParserStart, Split(text))
    IN [threw |-> st.threw, song |-> IF st.threw THEN EmptySong ELSE FinalSong(st)]

----------------------------------------------------------------------------
(* editable-song.ts: toEditableSong, fromEditableSong *)

ToEditableLine(line, sectionIndex, lineIndex) ==
    [id |-> <<"line", sectionIndex, lineIndex>>,
     lyrics |-> line.lyrics,
     chords |-> ToEditableChords(line.chords, sectionIndex, lineIndex)]

ToEditableSection(section, sectionIndex) ==
    [id |-> <<"section", sectionIndex>>,
     type |-> section.type,
     label |-> section.label,
     lines |-> [lIdx \in 1..Len(section.lines) |->
                    ToEditableLine(section.lines[lIdx], sectionIndex, lIdx - 1)]]

ToEditableSong(parsed) ==
    [title |-> parsed.title, subtitle |-> parsed.subtitle, artist |-> parsed.artist,
     key |-> parsed.key, capo |-> parsed.capo, tempo |-> parsed.tempo,
     sections |-> [sIdx \in 1..Len(parsed.sections) |->
                      ToEditableSection(parsed.sections[sIdx], sIdx - 1)]]

\* `${n}` for an integer n
RECURSIVE NaturalToString(_)
NaturalToString(n) ==
    IF n < 10 THEN <<Digits[n + 1]>>
    ELSE NaturalToString(n \div 10) \o <<Digits[(n % 10) + 1]>>

NumberToString(n) == IF n < 0 THEN <<"-">> \o NaturalToString(-n) ELSE NaturalToString(n)

\* if (field): a defined, non-empty string
Truthy(field) == field # Undefined /\ field[1] # <<>>

StartDirectiveName(type) ==
    CASE type = <<"v", "e", "r", "s", "e">> -> <<"s", "o", "v">>
      [] type = <<"c", "h", "o", "r", "u", "s">> -> <<"s", "o", "c">>
      [] type = <<"b", "r", "i", "d", "g", "e">> -> <<"s", "o", "b">>
      [] type = <<"t", "a", "b">> -> <<"s", "o", "t">>
      [] type = <<"o", "u", "t", "r", "o">> -> <<"s", "o", "t">>
      [] type = <<"i", "n", "t", "r", "o">> -> <<"s", "o", "t">>
      [] type = <<"g", "r", "i", "d">> -> <<"s", "o", "t">>
      [] OTHER -> <<"s", "o", "v">>

EndDirectiveName(type) ==
    CASE type = <<"v", "e", "r", "s", "e">> -> <<"e", "o", "v">>
      [] type = <<"c", "h", "o", "r", "u", "s">> -> <<"e", "o", "c">>
      [] type = <<"b", "r", "i", "d", "g", "e">> -> <<"e", "o", "b">>
      [] type = <<"t", "a", "b">> -> <<"e", "o", "t">>
      [] type = <<"o", "u", "t", "r", "o">> -> <<"e", "o", "t">>
      [] type = <<"i", "n", "t", "r", "o">> -> <<"e", "o", "t">>
      [] type = <<"g", "r", "i", "d">> -> <<"e", "o", "t">>
      [] OTHER -> <<"e", "o", "v">>

SectionStartDirective(type, label) ==
    IF Truthy(label)
    THEN <<"{">> \o StartDirectiveName(type) \o <<":", " ">> \o label[1] \o <<"}">>
    ELSE <<"{">> \o StartDirectiveName(type) \o <<"}">>

SectionEndDirective(type) == <<"{">> \o EndDirectiveName(type) \o <<"}">>

\* the lines emitSection pushes for one section
EmitSection(section) ==
    LET hasDirective == section.type # NONE
        body == [l \in 1..Len(section.lines) |->
                    InsertChordsIntoLine(section.lines[l].lyrics, section.lines[l].chords)]
    IN IF hasDirective
       THEN <<SectionStartDirective(section.type, section.label)>>
                \o body \o <<SectionEndDirective(section.type)>>
       ELSE body

MetadataLine(name, text) == <<"{">> \o name \o <<":", " ">> \o text \o <<"}">>

RECURSIVE EmitSections(_, _)
EmitSections(sections, idx) ==
    IF idx > Len(sections) THEN <<>>
    ELSE EmitSection(sections[idx])
            \o (IF idx < Len(sections) THEN << <<>> >> ELSE <<>>)
            \o EmitSections(sections, idx + 1)

FromEditableSong(sng) ==
    LET metadata ==
            (IF Truthy(sng.title) THEN <<MetadataLine(<<"t", "i", "t", "l", "e">>, sng.title[1])>> ELSE <<>>)
         \o (IF Truthy(sng.subtitle) THEN <<MetadataLine(<<"s", "u", "b", "t", "i", "t", "l", "e">>, sng.subtitle[1])>> ELSE <<>>)
         \o (IF Truthy(sng.artist) THEN <<MetadataLine(<<"a", "r", "t", "i", "s", "t">>, sng.artist[1])>> ELSE <<>>)
         \o (IF Truthy(sng.key) THEN <<MetadataLine(<<"k", "e", "y">>, sng.key[1])>> ELSE <<>>)
         \o (IF sng.capo # Undefined
             THEN <<MetadataLine(<<"c", "a", "p", "o">>, NumberToString(sng.capo[1]))>> ELSE <<>>)
         \o (IF sng.tempo # Undefined
             THEN <<MetadataLine(<<"t", "e", "m", "p", "o">>, NumberToString(sng.tempo[1]))>> ELSE <<>>)
        separator == IF Len(metadata) > 0 THEN << <<>> >> ELSE <<>>
    IN Join(metadata \o separator \o EmitSections(sng.sections, 1))

----------------------------------------------------------------------------
(* chord-copy service: copyChordsToSections *)

\* /\[([^\]]+)\]/g executed from lastIndex = from: the match of the line
\* parser's regex without its optional trailing space
BracketExec(line, from) ==
    LET m == RegexExec(line, from)
    IN [m EXCEPT !.length = IF m.found THEN Len(m.group) + 2 ELSE 0]

RECURSIVE ExtractLoop(_, _, _, _, _)
ExtractLoop(line, lastIndex, textWithoutChords, textPosition, chords) ==
    LET match == BracketExec(line, lastIndex)
    IN IF ~match.found
       THEN [chords |-> chords,
             originalText |-> textWithoutChords \o SliceFrom(line, lastIndex)]
       ELSE LET textBefore == Slice(line, lastIndex, match.index)
            IN ExtractLoop(line,
                           match.index + match.length,
                           textWithoutChords \o textBefore,
                           textPosition + Len(textBefore),
                           Append(chords, [chord |-> match.group,
                                           position |-> textPosition + Len(textBefore)]))

ExtractChordsFromLine(line) == ExtractLoop(line, 0, <<>>, 0, <<>>)

\* the position at which the chord-copy service inserts a chord
InsertionPoint(position, result) == Min(position, Len(result))

RECURSIVE CopyInsertLoop(_, _)
CopyInsertLoop(result, sortedChords) ==
    IF sortedChords = <<>> THEN result
    ELSE LET chord == Head(sortedChords)
             pos == InsertionPoint(chord.position, result)
             needsSpace == pos < Len(result) /\ result[pos + 1] # " "
             chordStr == IF needsSpace
                         THEN <<"[">> \o chord.chord \o <<"]", " ">>
                         ELSE <<"[">> \o chord.chord \o <<"]">>
         IN CopyInsertLoop(Slice(result, 0, pos) \o chordStr \o SliceFrom(result, pos),
                           Tail(sortedChords))

\* the chord-copy service's own insertChordsIntoLine
CopyInsertChordsIntoLine(text, chords) ==
    IF chords = <<>> THEN text
    ELSE CopyInsertLoop(text, SortDescending(chords))

VERSE == <<"v", "e", "r", "s", "e">>

CHORUS == <<"c", "h", "o", "r", "u", "s">>

VerseStarts ==
    { <<"{", "s", "o", "v", "}">>,
      <<"{", "s", "t", "a", "r", "t", "_", "o", "f", "_", "v", "e", "r", "s", "e", "}">> }

ChorusStarts ==
    { <<"{", "s", "o", "c", "}">>,
      <<"{", "s", "t", "a", "r", "t", "_", "o", "f", "_", "c", "h", "o", "r", "u", "s", "}">> }

VerseEnds ==
    { <<"{", "e", "o", "v", "}">>,
      <<"{", "e", "n", "d", "_", "o", "f", "_", "v", "e", "r", "s", "e", "}">> }

ChorusEnds ==
    { <<"{", "e", "o", "c", "}">>,
      <<"{", "e", "n", "d", "_", "o", "f", "_", "c", "h", "o", "r", "u", "s", "}">> }

\* getSectionDirective: found = FALSE is null
GetSectionDirective(line) ==
    LET trimmed == ToLowerCase(Trim(line))
    IN IF trimmed \in VerseStarts THEN [found |-> TRUE, type |-> "start", section |-> VERSE]
       ELSE IF trimmed \in ChorusStarts THEN [found |-> TRUE, type |-> "start", section |-> CHORUS]
       ELSE IF trimmed \in VerseEnds THEN [found |-> TRUE, type |-> "end", section |-> VERSE]
       ELSE IF trimmed \in ChorusEnds THEN [found |-> TRUE, type |-> "end", section |-> CHORUS]
       ELSE [found |-> FALSE, type |-> "", section |-> <<>>]

\* /\[[^\]]+\]/.test(line)
LineHasChords(line) == \E i \in 1..Len(line) : MatchesAt(line, i)

\* applyChordPattern's callback for the line at 0-based index
ApplyToLine(line, index, templateChords) ==
    IF Trim(line) = <<>> THEN line
    ELSE IF LineHasChords(line) THEN line
    ELSE IF index >= Len(templateChords) \/ templateChords[index + 1].chords = <<>>
    THEN line
    ELSE CopyInsertChordsIntoLine(ExtractChordsFromLine(line).originalText,
                                  templateChords[index + 1].chords)

ApplyChordPattern(targetLines, templateChords) ==
    [k \in 1..Len(targetLines) |-> ApplyToLine(targetLines[k], k - 1, templateChords)]

\* the locals of copyChordsToSections before the loop; <<>> is null,
\* <<pattern>> a recorded pattern
CopyStart ==
    [result |-> <<>>, firstVerseChords |-> Undefined, firstChorusChords |-> Undefined,
     currentSection |-> Undefined, currentSectionLines |-> <<>>,
     verseCount |-> 0, chorusCount |-> 0]

\* the lines pushed when a block closes: count is the block's number among
\* its kind, first the recorded pattern of that kind
ClosedBlockLines(sectionLines, count, first) ==
    IF count = 1 THEN sectionLines
    ELSE IF first # Undefined THEN ApplyChordPattern(sectionLines, first[1])
    ELSE sectionLines

\* one pass of the for loop's body over line
CopyStep(st, line) ==
    LET directive == GetSectionDirective(line)
    IN IF directive.found
       THEN IF directive.type = "start"
            THEN [st EXCEPT !.currentSection = Some(directive.section),
                            !.currentSectionLines = <<>>,
                            !.result = Append(@, line)]
            ELSE LET closed ==
                        IF st.currentSection = Some(VERSE)
                        THEN [st EXCEPT
                                !.verseCount = @ + 1,
                                !.firstVerseChords =
                                    IF st.verseCount + 1 = 1
                                    THEN Some([k \in 1..Len(st.currentSectionLines) |->
                                                 ExtractChordsFromLine(st.currentSectionLines[k])])
                                    ELSE @,
                                !.result = @ \o ClosedBlockLines(st.currentSectionLines,
                                                                 st.verseCount + 1,
                                                                 st.firstVerseChords)]
                        ELSE IF st.currentSection = Some(CHORUS)
                        THEN [st EXCEPT
                                !.chorusCount = @ + 1,
                                !.firstChorusChords =
                                    IF st.chorusCount + 1 = 1
                                    THEN Some([k \in 1..Len(st.currentSectionLines) |->
                                                 ExtractChordsFromLine(st.currentSectionLines[k])])
                                    ELSE @,
                                !.result = @ \o ClosedBlockLines(st.currentSectionLines,
                                                                 st.chorusCount + 1,
                                                                 st.firstChorusChords)]
                        ELSE st
                 IN [closed EXCEPT !.currentSection = Undefined,
                                   !.currentSectionLines = <<>>,
                                   !.result = Append(@, line)]
       ELSE IF st.currentSection # Undefined
       THEN [st EXCEPT !.currentSectionLines = Append(@, line)]
       ELSE [st EXCEPT !.result = Append(@, line)]

RECURSIVE CopyLoop(_, _)
CopyLoop(st, ls) ==
    IF ls = <<>> THEN st ELSE CopyLoop(CopyStep(st, Head(ls)), Tail(ls))

CopyChordsToSections(text) == Join(CopyLoop(CopyStart, Split(text)).result)

----------------------------------------------------------------------------
(* song-storage.ts and song-storage-runtime.ts: the storage service over the
   in-memory file system.  The map from path to content is a function whose
   domain is the set of stored paths. *)

\* ExpoFileSystemAdapter.songsDirectory
SongsDirectory ==
    <<"m", "e", "m", "o", "r", "y", ":", "/", "/", "s", "o", "n", "g", "s", "/">>

PRO == <<".", "p", "r", "o">>

\* String.prototype.endsWith
EndsWith(s, suffix) ==
    Len(s) >= Len(suffix) /\ SubSeq(s, Len(s) - Len(suffix) + 1, Len(s)) = suffix

\* this.fileSystem.songsDirectory + filename
PathOf(filename) == SongsDirectory \o filename

\* ExpoFileSystemAdapter.listFiles: the keys under the directory, the directory
\* (the first occurrence of it in the key) removed
ListFiles(storage) ==
    { SliceFrom(key, Len(SongsDirectory)) :
        key \in {k \in DOMAIN storage : StartsWith(k, SongsDirectory)} }

\* listSongFiles: the filenames that end with .pro
ListSongFiles(storage) == {filename \in ListFiles(storage) : EndsWith(filename, PRO)}

\* sharedMemoryStorage.set(path, content)
WriteFile(storage, path, text) ==
    [k \in DOMAIN storage \cup {path} |-> IF k = path THEN text ELSE storage[k]]

\* sharedMemoryStorage.delete(path)
DeleteFile(storage, path) == [k \in DOMAIN storage \ {path} |-> storage[k]]

TITLE_OPEN == <<"{", "t", "i", "t", "l", "e", ":">>

\* content.match(/\{title:\s*([^}]+)\}/i) at 1-based index i: the index of the
\* closing brace, or 0 when the regex does not match there
TitleMatchAt(text, i) ==
    IF /\ i + Len(TITLE_OPEN) - 1 <= Len(text)
       /\ ToLowerCase(SubSeq(text, i, i + Len(TITLE_OPEN) - 1)) = TITLE_OPEN
    THEN LET from == i + Len(TITLE_OPEN)
             close == IF \E q \in from..Len(text) : text[q] = "}"
                      THEN CHOOSE q \in from..Len(text) :
                              text[q] = "}" /\ \A k \in from..(q - 1) : text[k] # "}"
                      ELSE 0
         IN IF close > from THEN close ELSE 0
    ELSE 0

\* extractTitle: found = FALSE is null; the first match's group, trimmed
ExtractTitle(text) ==
    IF \E i \in 1..Len(text) : TitleMatchAt(text, i) > 0
    THEN LET i == CHOOSE i \in 1..Len(text) :
                    /\ TitleMatchAt(text, i) > 0
                    /\ \A k \in 1..(i - 1) : TitleMatchAt(text, k) = 0
         IN [found |-> TRUE,
             title |-> Trim(SubSeq(text, i + Len(TITLE_OPEN), TitleMatchAt(text, i) - 1))]
    ELSE [found |-> FALSE, title |-> <<>>]

\* String.prototype.padStart(targetLength, padString) for a one-character pad
PadStart(s, targetLength, padString) ==
    IF Len(s) >= targetLength THEN s
    ELSE [i \in 1..(targetLength - Len(s)) |-> padString] \o s

\* width of the numeric suffix
SuffixWidth == 4

\* `${title}.pro`
BaseFilename(title) == title \o PRO

\* `${title} ${counter.toString().padStart(4, '0')}.pro`
NumberedFilename(title, counter) ==
    title \o <<" ">> \o PadStart(NaturalToString(counter), SuffixWidth, "0") \o PRO

\* a loop that tries one suffix fewer
StopsOneEarly(counter) == counter < CounterLimit - 1

\* while (counter < 10000), with the limit of the model
CounterInRange(counter) == counter < CounterLimit

\* the while loop of generateUniqueFilename: threw = TRUE is the Error
RECURSIVE NextAvailable(_, _, _)
NextAvailable(title, existingNames, counter) ==
    IF CounterInRange(counter)
    THEN IF NumberedFilename(title, counter) \notin existingNames
         THEN [threw |-> FALSE, filename |-> NumberedFilename(title, counter)]
         ELSE NextAvailable(title, existingNames, counter + 1)
    ELSE [threw |-> TRUE, filename |-> <<>>]

\* generateUniqueFilename after its await: files is what listSongFiles returned
GenerateUniqueFilename(title, excludeFilename, files) ==
    LET existingNames == {name \in files : name # excludeFilename}
    IN IF BaseFilename(title) \notin existingNames
       THEN [threw |-> FALSE, filename |-> BaseFilename(title)]
       ELSE NextAvailable(title, existingNames, 1)

----------------------------------------------------------------------------
(* Line scenario: parse a raw line, serialize it, parse it again *)

LineAlphabet == {"[", "]", " ", "a", "b"}

\* n chord tokens separated by single spaces
RECURSIVE ChordsOnly(_)
ChordsOnly(names) ==
    IF names = <<>> THEN <<>>
    ELSE IF Len(names) = 1 THEN <<"[">> \o names[1] \o <<"]">>
    ELSE <<"[">> \o names[1] \o <<"]", " ">> \o ChordsOnly(Tail(names))

ChordNames == {<<"C">>, <<"G">>, <<"A", "m">>}

ChordsOnlyLines == {ChordsOnly(ns) : ns \in SeqsUpTo(ChordNames, MaxTokens) \ {<<>>}}

\* lines of the parser's and the serializer's unit tests
ExampleLines ==
    { <<"[", "C", "]", "H", "e", "l", "l", "o", " ", "[", "G", "]", "W", "o", "r", "l", "d">>,
      <<"B", "e", "-", "[", "C", "]", "-", "f", "o", "r", "e">>,
      <<"H", "e", "l", "l", "o", " ", "W", "o", "r", "l", "d">> }

LineInputs == SeqsUpTo(LineAlphabet, MaxLineLen) \cup ChordsOnlyLines \cup ExampleLines

NoLine == [lyrics |-> <<>>, chords |-> <<>>]

LineIdle ==
    /\ raw = <<>>
    /\ parsedLine = NoLine
    /\ lineText = <<>>
    /\ reparsedLine = NoLine

ChordIdle ==
    /\ inputChord = <<>>
    /\ semitonesA = 0
    /\ semitonesB = 0
    /\ call = <<>>
    /\ once = <<>>
    /\ twice = <<>>
    /\ direct = <<>>

StorageIdle ==
    /\ sharedMemoryStorage = <<>>
    /\ saves = <<>>
    /\ storedAtStart = <<>>

CopyIdle ==
    /\ resultLines = <<>>
    /\ firstVerseChords = <<>>
    /\ firstChorusChords = <<>>
    /\ copySection = <<>>
    /\ currentSectionLines = <<>>
    /\ verseCount = 0
    /\ chorusCount = 0

DocIdle ==
    /\ content = <<>>
    /\ lines = <<>>
    /\ lineNo = 0
    /\ song = EmptySong
    /\ currentSection = FreshSection(NONE, Undefined)
    /\ inSection = FALSE
    /\ editable = EmptySong
    /\ output = <<>>
    /\ again = EmptySong

InitLine ==
    /\ pc = "raw"
    /\ raw \in LineInputs
    /\ parsedLine = NoLine
    /\ lineText = <<>>
    /\ reparsedLine = NoLine
    /\ ChordIdle
    /\ DocIdle
    /\ CopyIdle
    /\ StorageIdle

DoParseLine ==
    /\ pc = "raw"
    /\ parsedLine' = ParseLine(raw)
    /\ pc' = "parsed"
    /\ UNCHANGED <<raw, lineText, reparsedLine, chordVars, docVars, copyVars, storageVars>>

DoSerializeLine ==
    /\ pc = "parsed"
    /\ lineText' = InsertChordsIntoLine(parsedLine.lyrics,
                                        ToEditableChords(parsedLine.chords, 0, 0))
    /\ pc' = "serialized"
    /\ UNCHANGED <<raw, parsedLine, reparsedLine, chordVars, docVars, copyVars, storageVars>>

DoReparseLine ==
    /\ pc = "serialized"
    /\ reparsedLine' = ParseLine(lineText)
    /\ pc' = "reparsed"
    /\ UNCHANGED <<raw, parsedLine, lineText, chordVars, docVars, copyVars, storageVars>>

NextLine == DoParseLine \/ DoSerializeLine \/ DoReparseLine

SpecLine == InitLine /\ [][NextLine]_vars

----------------------------------------------------------------------------
(* Edited-line scenario: a line whose chord positions were set in the editor,
   anywhere up to MaxPosition, is serialized and parsed again *)

EditedLyrics == SeqsUpTo({"H", "i", " "}, MaxLyricsLen)

EditedChordNames == {<<"G">>, <<"A">>}

EditedChords ==
    SeqsUpTo([chord : EditedChordNames, position : 0..MaxPosition], MaxEditedChords)

InitInsert ==
    /\ pc = "parsed"
    /\ raw = <<>>
    /\ parsedLine \in [lyrics : EditedLyrics, chords : EditedChords]
    /\ lineText = <<>>
    /\ reparsedLine = NoLine
    /\ ChordIdle
    /\ DocIdle
    /\ CopyIdle
    /\ StorageIdle

NextInsert == DoSerializeLine \/ DoReparseLine

SpecInsert == InitInsert /\ [][NextInsert]_vars

----------------------------------------------------------------------------
(* Transposer scenario: transpose a chord by a, the result by b, and the
   chord by a + b *)

ChordAlphabet == {"C", "B", "b", "#", "/"}

\* chords of the transposer's unit tests
ExampleChords ==
    { <<"A", "m", "7", "/", "E">>, <<"F", "#", "m", "7">>, <<"B", "b", "m">>,
      <<"D", "/", "F", "#">>, <<"C", "s", "u", "s", "4">>, <<"G", "/", "B", "b">>,
      <<"E", "b">>, <<"E", "#">>, <<"C", "m", "/">>, <<"A", "b", "/", "x">> }

ChordInputs == SeqsUpTo(ChordAlphabet, MaxChordLen) \cup ExampleChords

Semitones == (-MaxSemitones)..MaxSemitones

NoCall == TransposeChordCall(<<>>, 0)

InitChord ==
    /\ pc = "chord"
    /\ inputChord \in ChordInputs
    /\ semitonesA = 0
    /\ semitonesB = 0
    /\ call = NoCall
    /\ once = <<>>
    /\ twice = <<>>
    /\ direct = <<>>
    /\ LineIdle
    /\ DocIdle
    /\ CopyIdle
    /\ StorageIdle

DoTransposeOnce ==
    /\ pc = "chord"
    /\ \E a \in Semitones :
        /\ semitonesA' = a
        /\ call' = TransposeChordCall(inputChord, a)
        /\ once' = TransposeChord(inputChord, a)
    /\ pc' = "once"
    /\ UNCHANGED <<inputChord, semitonesB, twice, direct, lineVars, docVars, copyVars, storageVars>>

DoTransposeTwice ==
    /\ pc = "once"
    /\ \E b \in Semitones :
        /\ semitonesB' = b
        /\ twice' = TransposeChord(once, b)
        /\ direct' = TransposeChord(inputChord, semitonesA + b)
    /\ pc' = "twice"
    /\ UNCHANGED <<inputChord, semitonesA, call, once, lineVars, docVars, copyVars, storageVars>>

NextChord == DoTransposeOnce \/ DoTransposeTwice

SpecChord == InitChord /\ [][NextChord]_vars

----------------------------------------------------------------------------
(* Document scenario: parse a document line by line, convert the song to the
   editable model, serialize it and parse the serializer's output *)

LinePool ==
    { <<"{", "s", "o", "v", "}">>,
      <<"{", "e", "o", "v", "}">>,
      <<"{", "s", "o", "c", ":", " ", "R", "}">>,
      <<"{", "s", "t", "a", "r", "t", "_", "o", "f", "_", "i", "n", "t", "r", "o", "}">>,
      <<"x">>,
      <<"[", "a", "]", "[", "b", "]", "y">>,
      <<>>,
      <<" ">>,
      <<"#", "c">>,
      <<"{", "t", "i", "t", "l", "e", ":", " ", "T", "}">>,
      <<"{", "c", "a", "p", "o", ":", " ", "2", "}">>,
      <<"{", "c", "o", "n", "s", "t", "r", "u", "c", "t", "o", "r", "}">> }

DocInputs == {Join(ls) : ls \in SeqsUpTo(LinePool, MaxDocLines)}

InitDoc ==
    /\ pc = "content"
    /\ content \in DocInputs
    /\ lines = <<>>
    /\ lineNo = 0
    /\ song = EmptySong
    /\ currentSection = FreshSection(NONE, Undefined)
    /\ inSection = FALSE
    /\ editable = EmptySong
    /\ output = <<>>
    /\ again = EmptySong
    /\ LineIdle
    /\ ChordIdle
    /\ CopyIdle
    /\ StorageIdle

ParserState ==
    [song |-> song, currentSection |-> currentSection,
     inSection |-> inSection, threw |-> FALSE]

\* parseChordPro, lines 85-96
BeginParse ==
    /\ pc = "content"
    /\ lines' = Split(content)
    /\ lineNo' = 0
    /\ song' = ParserStart.song
    /\ currentSection' = ParserStart.currentSection
    /\ inSection' = ParserStart.inSection
    /\ pc' = "loop"
    /\ UNCHANGED <<content, editable, output, again, lineVars, chordVars, copyVars, storageVars>>

\* parseChordPro, one iteration of the for loop
ParseNextLine ==
    /\ pc = "loop"
    /\ lineNo < Len(lines)
    /\ LET st == LineStep(ParserState, lines[lineNo + 1])
       IN /\ song' = st.song
          /\ currentSection' = st.currentSection
          /\ inSection' = st.inSection
          /\ pc' = IF st.threw THEN "threw" ELSE "loop"
    /\ lineNo' = lineNo + 1
    /\ UNCHANGED <<content, lines, editable, output, again, lineVars, chordVars, copyVars, storageVars>>

\* parseChordPro, lines 181-186
FinishParse ==
    /\ pc = "loop"
    /\ lineNo = Len(lines)
    /\ song' = FinalSong(ParserState)
    /\ pc' = "parsed"
    /\ UNCHANGED <<content, lines, lineNo, currentSection, inSection,
                   editable, output, again, lineVars, chordVars, copyVars, storageVars>>

DoToEditableSong ==
    /\ pc = "parsed"
    /\ editable' = ToEditableSong(song)
    /\ pc' = "editable"
    /\ UNCHANGED <<content, parserVars, output, again, lineVars, chordVars, copyVars, storageVars>>

DoFromEditableSong ==
    /\ pc = "editable"
    /\ output' = FromEditableSong(editable)
    /\ pc' = "output"
    /\ UNCHANGED <<content, parserVars, editable, again, lineVars, chordVars, copyVars, storageVars>>

DoReparse ==
    /\ pc = "output"
    /\ LET r == ParseChordPro(output)
       IN /\ again' = r.song
          /\ pc' = IF r.threw THEN "threw" ELSE "reparsed"
    /\ UNCHANGED <<content, parserVars, editable, output, lineVars, chordVars, copyVars, storageVars>>

NextDoc ==
    \/ BeginParse
    \/ ParseNextLine
    \/ FinishParse
    \/ DoToEditableSong
    \/ DoFromEditableSong
    \/ DoReparse

SpecDoc == InitDoc /\ [][NextDoc]_vars

----------------------------------------------------------------------------
(* Chord-copy scenario: copyChordsToSections over a document made of blocks,
   each an optional start directive, some lines and an optional end directive *)

\* lines of a block: plain text, lines with chord tokens, and a blank line
\* that ends in a carriage return
BodyPool ==
    { <<"H", "i">>,
      <<"a", "b", "c", "[", "B", "]", "d", "e", "[", "A", "]">>,
      <<"[", "C", "]", " ", "[", "G", "]", "x">>,
      <<"\r">> }

BlockStarts == { <<>>, << <<"{", "s", "o", "v", "}">> >>, << <<"{", "s", "o", "c", "}">> >> }

BlockEnds == { <<>>, << <<"{", "e", "o", "v", "}">> >>, << <<"{", "e", "o", "c", "}">> >> }

Blocks ==
    { start \o body \o ending :
        start \in BlockStarts, body \in SeqsUpTo(BodyPool, MaxBlockLines), ending \in BlockEnds }

RECURSIVE Concat(_)
Concat(seqs) == IF seqs = <<>> THEN <<>> ELSE Head(seqs) \o Concat(Tail(seqs))

CopyInputs == {Join(Concat(bs)) : bs \in SeqsUpTo(Blocks, MaxBlocks)}

InitCopy ==
    /\ pc = "copy-content"
    /\ content \in CopyInputs
    /\ lines = <<>>
    /\ lineNo = 0
    /\ song = EmptySong
    /\ currentSection = FreshSection(NONE, Undefined)
    /\ inSection = FALSE
    /\ editable = EmptySong
    /\ output = <<>>
    /\ again = EmptySong
    /\ CopyIdle
    /\ StorageIdle
    /\ LineIdle
    /\ ChordIdle

CopyState ==
    [result |-> resultLines, firstVerseChords |-> firstVerseChords,
     firstChorusChords |-> firstChorusChords, currentSection |-> copySection,
     currentSectionLines |-> currentSectionLines,
     verseCount |-> verseCount, chorusCount |-> chorusCount]

SetCopyState(st) ==
    /\ resultLines' = st.result
    /\ firstVerseChords' = st.firstVerseChords
    /\ firstChorusChords' = st.firstChorusChords
    /\ copySection' = st.currentSection
    /\ currentSectionLines' = st.currentSectionLines
    /\ verseCount' = st.verseCount
    /\ chorusCount' = st.chorusCount

\* copyChordsToSections, before the loop
BeginCopy ==
    /\ pc = "copy-content"
    /\ lines' = Split(content)
    /\ lineNo' = 0
    /\ SetCopyState(CopyStart)
    /\ pc' = "copy-loop"
    /\ UNCHANGED <<content, song, currentSection, inSection, editable, output, again,
                   lineVars, chordVars, storageVars>>

\* copyChordsToSections, one iteration of the for loop
CopyNextLine ==
    /\ pc = "copy-loop"
    /\ lineNo < Len(lines)
    /\ SetCopyState(CopyStep(CopyState, lines[lineNo + 1]))
    /\ lineNo' = lineNo + 1
    /\ pc' = "copy-loop"
    /\ UNCHANGED <<content, lines, song, currentSection, inSection, editable, output,
                   again, lineVars, chordVars, storageVars>>

\* copyChordsToSections, return result.join('\n')
FinishCopy ==
    /\ pc = "copy-loop"
    /\ lineNo = Len(lines)
    /\ output' = Join(resultLines)
    /\ pc' = "copied"
    /\ UNCHANGED <<content, lines, lineNo, song, currentSection, inSection, editable,
                   again, lineVars, chordVars, copyVars, storageVars>>

NextCopy == BeginCopy \/ CopyNextLine \/ FinishCopy

SpecCopy == InitCopy /\ [][NextCopy]_vars

----------------------------------------------------------------------------
(* Directive scenario: a document that is one title or subtitle directive,
   written in any case and form, with spaces around the name and the value *)

TitleNames ==
    { <<"t", "i", "t", "l", "e">>, <<"T", "I", "T", "L", "E">>,
      <<"T", "i", "t", "l", "e">>, <<"t">>, <<"T">> }

SubtitleNames ==
    { <<"s", "u", "b", "t", "i", "t", "l", "e">>, <<"S", "u", "b", "T", "i", "t", "l", "e">>,
      <<"s", "t">>, <<"S", "T">>, <<"s", "u">>, <<"S", "u">> }

DirectiveValues ==
    { <<"T">>, <<"S", "p", "a", "c", "e", "d", " ", "T", "i", "t", "l", "e">> }

Pads == {Spaces(n) : n \in 0..MaxPad}

\* {<pad>name<pad>:<pad>value<pad>}
DirectiveText(name, value, beforeName, afterName, beforeValue, afterValue) ==
    <<"{">> \o beforeName \o name \o afterName \o <<":">>
            \o beforeValue \o value \o afterValue \o <<"}">>

\* the line of the parser's test: {TITLE:   Spaced Title   }
SpacedTitle ==
    DirectiveText(<<"T", "I", "T", "L", "E">>,
                  <<"S", "p", "a", "c", "e", "d", " ", "T", "i", "t", "l", "e">>,
                  <<>>, <<>>, Spaces(3), Spaces(3))

DirectiveInputs ==
    { DirectiveText(name, value, p1, p2, p3, p4) :
        name \in TitleNames \cup SubtitleNames, value \in DirectiveValues,
        p1 \in Pads, p2 \in Pads, p3 \in Pads, p4 \in Pads }
    \cup {SpacedTitle}

InitDirective ==
    /\ pc = "content"
    /\ content \in DirectiveInputs
    /\ lines = <<>>
    /\ lineNo = 0
    /\ song = EmptySong
    /\ currentSection = FreshSection(NONE, Undefined)
    /\ inSection = FALSE
    /\ editable = EmptySong
    /\ output = <<>>
    /\ again = EmptySong
    /\ LineIdle
    /\ ChordIdle
    /\ CopyIdle
    /\ StorageIdle

SpecDirective == InitDirective /\ [][NextDoc]_vars

----------------------------------------------------------------------------
(* Storage scenario: saveSongWithRename(currentFilename, content) over a
   storage that already holds some files.  A call runs in the steps between
   its awaits; the steps of different calls interleave. *)

\* the title of the saved songs
SavedTitle == <<"A">>

\* the names the saved title can collide with
TakenNames ==
    {BaseFilename(SavedTitle)}
    \cup {NumberedFilename(SavedTitle, n) : n \in 1..(CounterLimit - 1)}

\* names of the files that may be stored before the call
FilePool == TakenNames \cup {<<"X", ".", "p", "r", "o">>, <<"A", ".", "t", "x", "t">>}

\* content of the files stored before the call
OldContent == <<"o", "l", "d">>

\* the files being saved
CurrentFilenames == {<<"X", ".", "p", "r", "o">>, BaseFilename(SavedTitle), NumberedFilename(SavedTitle, 1)}

\* the texts being saved
SaveContents ==
    { <<"{", "t", "i", "t", "l", "e", ":", " ", "A", "}">>,
      <<"{", "T", "I", "T", "L", "E", ":", " ", " ", "A", " ", "}", "x">>,
      <<"{", "t", ":", " ", "A", "}">>,
      <<"#", " ", "{", "t", "i", "t", "l", "e", ":", " ", "B", "}", "\n", "{", "t", "i", "t", "l", "e", ":", " ", "A", "}">>,
      <<"x">>,
      <<"{", "t", "i", "t", "l", "e", ":", " ", "}">> }

\* the storages that hold a subset of the pool
StoragesOver(names) ==
    { [path \in {PathOf(name) : name \in chosen} |-> OldContent] : chosen \in SUBSET names }

\* the locals of a call that has not started
NewCall(currentFilename, text) ==
    [pc |-> "called", currentFilename |-> currentFilename, content |-> text,
     newTitle |-> <<>>, files |-> {}, newFilename |-> <<>>, returned |-> <<>>]

InitStorage ==
    /\ pc = "storage"
    /\ sharedMemoryStorage \in StoragesOver(FilePool)
    /\ storedAtStart = sharedMemoryStorage
    /\ saves \in { <<NewCall(currentFilename, text)>> :
                      currentFilename \in CurrentFilenames, text \in SaveContents }
    /\ LineIdle
    /\ ChordIdle
    /\ DocIdle
    /\ CopyIdle

\* saveSongWithRename up to its first await: extractTitle, then either
\* saveSong(currentFilename) or the listing of generateUniqueFilename
StartSave(c) ==
    /\ saves[c].pc = "called"
    /\ LET newTitle == ExtractTitle(saves[c].content)
       IN IF ~newTitle.found \/ newTitle.title = <<>>
          THEN /\ sharedMemoryStorage' =
                    WriteFile(sharedMemoryStorage, PathOf(saves[c].currentFilename),
                              saves[c].content)
               /\ saves' = [saves EXCEPT ![c].pc = "saved"]
          ELSE /\ saves' = [saves EXCEPT ![c].pc = "listed",
                                         ![c].newTitle = newTitle.title,
                                         ![c].files = ListSongFiles(sharedMemoryStorage)]
               /\ UNCHANGED sharedMemoryStorage
    /\ UNCHANGED <<pc, storedAtStart, lineVars, chordVars, docVars, copyVars>>

\* generateUniqueFilename after its await: the name, or the Error
ChooseFilename(c) ==
    /\ saves[c].pc = "listed"
    /\ LET unique == GenerateUniqueFilename(saves[c].newTitle, saves[c].currentFilename,
                                            saves[c].files)
       IN saves' = IF unique.threw
                   THEN [saves EXCEPT ![c].pc = "threw"]
                   ELSE [saves EXCEPT ![c].pc = "named",
                                      ![c].newFilename = unique.filename]
    /\ UNCHANGED <<pc, sharedMemoryStorage, storedAtStart,
                   lineVars, chordVars, docVars, copyVars>>

\* saveSongWithRename resumed with the name: saveSong(newFilename, content)
SaveNewFile(c) ==
    /\ saves[c].pc = "named"
    /\ sharedMemoryStorage' =
          WriteFile(sharedMemoryStorage, PathOf(saves[c].newFilename), saves[c].content)
    /\ saves' = [saves EXCEPT ![c].pc = "written"]
    /\ UNCHANGED <<pc, storedAtStart, lineVars, chordVars, docVars, copyVars>>

\* saveSongWithRename after the write: deleteSong(currentFilename) when the
\* name changed, else the return
DeleteOldFile(c) ==
    /\ saves[c].pc = "written"
    /\ IF saves[c].newFilename # saves[c].currentFilename
       THEN /\ sharedMemoryStorage' =
                 DeleteFile(sharedMemoryStorage, PathOf(saves[c].currentFilename))
            /\ saves' = [saves EXCEPT ![c].pc = "deleted"]
       ELSE /\ saves' = [saves EXCEPT ![c].pc = "returned",
                                      ![c].returned = saves[c].newFilename]
            /\ UNCHANGED sharedMemoryStorage
    /\ UNCHANGED <<pc, storedAtStart, lineVars, chordVars, docVars, copyVars>>

\* the return after the last await
ReturnFilename(c) ==
    /\ saves[c].pc \in {"saved", "deleted"}
    /\ saves' = [saves EXCEPT ![c].pc = "returned",
                              ![c].returned = IF saves[c].pc = "saved"
                                              THEN saves[c].currentFilename
                                              ELSE saves[c].newFilename]
    /\ UNCHANGED <<pc, sharedMemoryStorage, storedAtStart,
                   lineVars, chordVars, docVars, copyVars>>

DoStartSave == \E c \in DOMAIN saves : StartSave(c)

DoChooseFilename == \E c \in DOMAIN saves : ChooseFilename(c)

DoSaveNewFile == \E c \in DOMAIN saves : SaveNewFile(c)

DoDeleteOldFile == \E c \in DOMAIN saves : DeleteOldFile(c)

DoReturnFilename == \E c \in DOMAIN saves : ReturnFilename(c)

NextStorage ==
    \/ DoStartSave
    \/ DoChooseFilename
    \/ DoSaveNewFile
    \/ DoDeleteOldFile
    \/ DoReturnFilename

SpecStorage == InitStorage /\ [][NextStorage]_vars

----------------------------------------------------------------------------
(* Number scenario: a document with one capo or tempo directive, its value a
   non-negative integer in decimal, alone or between other lines *)

NumberNames == {<<"c", "a", "p", "o">>, <<"t", "e", "m", "p", "o">>}

\* {name: n}, as fromEditableSong writes it
NumberDirective(name, n) ==
    DirectiveText(name, NaturalToString(n), <<>>, <<>>, <<" ">>, <<>>)

\* the lines around the directive
AroundPool == {<<"x">>, <<"{", "s", "o", "v", "}">>, <<"{", "t", "i", "t", "l", "e", ":", " ", "T", "}">>}

NumberInputs ==
    { Join(before \o <<NumberDirective(name, n)>> \o after) :
        name \in NumberNames, n \in 0..MaxNumber,
        before \in SeqsUpTo(AroundPool, 1), after \in SeqsUpTo(AroundPool, 1) }

InitNumber ==
    /\ pc = "content"
    /\ content \in NumberInputs
    /\ lines = <<>>
    /\ lineNo = 0
    /\ song = EmptySong
    /\ currentSection = FreshSection(NONE, Undefined)
    /\ inSection = FALSE
    /\ editable = EmptySong
    /\ output = <<>>
    /\ again = EmptySong
    /\ LineIdle
    /\ ChordIdle
    /\ CopyIdle
    /\ StorageIdle

SpecNumber == InitNumber /\ [][NextDoc]_vars

----------------------------------------------------------------------------
(* Section scenario: a document that opens one section with a start
   directive, of any name, with or without a label, a body line and an end *)

StartNames ==
    { <<"s", "o", "v">>, <<"s", "o", "c">>, <<"s", "o", "b">>, <<"s", "o", "t">>,
      <<"s", "t", "a", "r", "t", "_", "o", "f", "_", "v", "e", "r", "s", "e">>, <<"s", "t", "a", "r", "t", "_", "o", "f", "_", "c", "h", "o", "r", "u", "s">>, <<"s", "t", "a", "r", "t", "_", "o", "f", "_", "b", "r", "i", "d", "g", "e">>,
      <<"s", "t", "a", "r", "t", "_", "o", "f", "_", "i", "n", "t", "r", "o">>, <<"s", "t", "a", "r", "t", "_", "o", "f", "_", "o", "u", "t", "r", "o">>, <<"s", "t", "a", "r", "t", "_", "o", "f", "_", "t", "a", "b">>, <<"s", "t", "a", "r", "t", "_", "o", "f", "_", "g", "r", "i", "d">>,
      <<"S", "t", "a", "r", "t", "_", "O", "f", "_", "V", "e", "r", "s", "e">>, <<"s", "t", "a", "r", "t", "_", "o", "f", "_", "f", "o", "o">>, <<"s", "t", "a", "r", "t", "_", "o", "f", "_">> }

\* {name} or {name: label}
StartDirectives ==
    { <<"{">> \o name \o <<"}">> : name \in StartNames }
    \cup { DirectiveText(name, <<"L">>, <<>>, <<>>, <<" ">>, <<>>) : name \in StartNames }

SectionBodies == {<<<<"x">>>>, <<<<"[", "a", "]", "y">>, <<"x">>>>}

SectionEnds == {<<>>, <<<<"{", "e", "o", "v", "}">>>>, <<<<"{", "e", "n", "d", "_", "o", "f", "_", "f", "o", "o", "}">>>>}

SectionInputs ==
    { Join(<<start>> \o body \o end) :
        start \in StartDirectives, body \in SectionBodies, end \in SectionEnds }

InitSection ==
    /\ pc = "content"
    /\ content \in SectionInputs
    /\ lines = <<>>
    /\ lineNo = 0
    /\ song = EmptySong
    /\ currentSection = FreshSection(NONE, Undefined)
    /\ inSection = FALSE
    /\ editable = EmptySong
    /\ output = <<>>
    /\ again = EmptySong
    /\ LineIdle
    /\ ChordIdle
    /\ CopyIdle
    /\ StorageIdle

SpecSection == InitSection /\ [][NextDoc]_vars

----------------------------------------------------------------------------
(* Race scenario: two saveSongWithRename calls for two different files whose
   contents carry the same title; each call starts at any time and the steps
   of the two interleave at the awaits *)

RaceFilenames == {<<"X", ".", "p", "r", "o">>, <<"Y", ".", "p", "r", "o">>, BaseFilename(SavedTitle)}

\* two texts with the title A
RaceContents == {<<"{", "t", "i", "t", "l", "e", ":", " ", "A", "}">>, <<"{", "t", "i", "t", "l", "e", ":", " ", "A", "}", "\n", "x">>}

RacePool == {BaseFilename(SavedTitle), NumberedFilename(SavedTitle, 1), <<"X", ".", "p", "r", "o">>, <<"Y", ".", "p", "r", "o">>}

InitRace ==
    /\ pc = "storage"
    /\ sharedMemoryStorage \in StoragesOver(RacePool)
    /\ storedAtStart = sharedMemoryStorage
    /\ saves \in { <<NewCall(pair[1], firstText), NewCall(pair[2], secondText)>> :
                      pair \in {p \in RaceFilenames \X RaceFilenames : p[1] # p[2]},
                      firstText \in RaceContents, secondText \in RaceContents }
    /\ LineIdle
    /\ ChordIdle
    /\ DocIdle
    /\ CopyIdle

SpecRace == InitRace /\ [][NextStorage]_vars

----------------------------------------------------------------------------
(* Properties of the transposer *)

\* a note name as parseChord's root pattern accepts it: [A-G][#b]?
IsNoteName(n) ==
    /\ Len(n) \in 1..2
    /\ n[1] \in RootLetters
    /\ Len(n) = 2 => n[2] \in {"#", "b"}

LetterClass(l) ==
    CASE l = "C" -> 0 [] l = "D" -> 2 [] l = "E" -> 4 [] l = "F" -> 5
      [] l = "G" -> 7 [] l = "A" -> 9 [] l = "B" -> 11

\* the pitch class, 0..11, of a note name
PitchClass(n) ==
    (LetterClass(n[1])
        + (IF Len(n) = 1 THEN 0 ELSE IF n[2] = "#" THEN 1 ELSE 11)) % 12

\* pitch classes that have a single, natural spelling, and that spelling
NaturalClasses == {0, 2, 4, 5, 7, 9, 11}

NaturalName(p) ==
    CASE p = 0 -> <<"C">> [] p = 2 -> <<"D">> [] p = 4 -> <<"E">> [] p = 5 -> <<"F">>
      [] p = 7 -> <<"G">> [] p = 9 -> <<"A">> [] p = 11 -> <<"B">>

Shifted(p, semitones) == (p + semitones + 12 * (MaxSemitones + 2)) % 12

Has(s, c) == \E i \in 1..Len(s) : s[i] = c

\* the same note up to enharmonic spelling, or the same text
SamePitch(m, n) ==
    \/ m = n
    \/ IsNoteName(m) /\ IsNoteName(n) /\ PitchClass(m) = PitchClass(n)

\* the same chord up to the enharmonic spelling of root and bass
SameChord(x, y) ==
    \/ x = y
    \/ LET px == ParseChord(x)
           py == ParseChord(y)
       IN /\ px.ok /\ py.ok
          /\ SamePitch(px.root, py.root)
          /\ px.quality = py.quality
          /\ SamePitch(px.bass, py.bass)

QualityStartsWithAccidental(c) ==
    LET p == ParseChord(c)
    IN p.ok /\ p.quality # <<>> /\ p.quality[1] \in {"#", "b"}

\* C4 as stated: transposition composes, transposeChord(transposeChord(c, a), b)
\* equals transposeChord(c, a + b).
C4_ComposesExactly ==
    pc = "twice" => twice = direct

\* C4 as amended: for a chord whose quality does not begin with '#' or 'b',
\* transposing by a and then by b gives the same chord as transposing by a + b
\* up to the enharmonic spelling of root and bass: same pitch classes, same
\* quality text.
C4_ComposesUpToSpelling ==
    (pc = "twice" /\ ~QualityStartsWithAccidental(inputChord))
        => SameChord(twice, direct)

\* a flat chord taken through a natural and back: spelled differently, same pitch
C4_Witness ==
    /\ pc = "twice"
    /\ ParseChord(inputChord).ok
    /\ semitonesA # 0 /\ semitonesB # 0 /\ semitonesA + semitonesB # 0
    /\ twice # direct
    /\ SameChord(twice, direct)

\* C5: transposeChord(c, 0) = c and transposeChord(c, 12) = c for every chord
\* string c.
C5_ZeroAndOctaveIdentity ==
    (pc = "once" /\ semitonesA \in {0, 12}) => once = inputChord

\* C6: for every chord parseChord accepts and every non-zero shift s, the
\* returned chord has root pitch class (input root pitch class + s) mod 12, a
\* bass note shifted by the same amount, and the same quality text.
C6_ShiftsRootAndBass ==
    (pc = "once" /\ semitonesA # 0 /\ call.parsed.ok) =>
        LET p == call.parsed
            withBass == p.hasBass /\ IsNoteName(p.bass)
        IN /\ ~call.early
           /\ IsNoteName(call.newRoot)
           /\ PitchClass(call.newRoot) = Shifted(PitchClass(p.root), semitonesA)
           /\ withBass =>
                /\ IsNoteName(call.newBass)
                /\ PitchClass(call.newBass) = Shifted(PitchClass(p.bass), semitonesA)
           /\ once = call.newRoot \o p.quality
                        \o (IF withBass THEN <<"/">> \o call.newBass ELSE <<>>)

IsSharpSpelled(n) == Len(n) = 2 /\ n[1] \in RootLetters /\ n[2] = "#"

\* the spelling rule for one note handed to transposeNote
SpellingFollowsInput(note, out, semitones) ==
    /\ note \in FlatNames => ~Has(out, "#")
    /\ IsSharpSpelled(note) => ~Has(out, "b")
    /\ (/\ note \in FlatNames \cup SharpNames \cup {NaturalName(p) : p \in NaturalClasses}
        /\ Shifted(PitchClass(note), semitones) \in NaturalClasses)
            => out = NaturalName(Shifted(PitchClass(note), semitones))

\* C7: accidental spelling follows the input note: a flat-spelled note (Db, Eb,
\* Gb, Ab, Bb) is never transposed to a sharp-spelled name, a sharp-spelled
\* note never to a flat-spelled name, and a result pitch class with a single
\* spelling is given as a natural.
C7_SpellingFollowsInput ==
    (pc = "once" /\ ~call.early) =>
        /\ SpellingFollowsInput(call.parsed.root, call.newRoot, semitonesA)
        /\ (call.parsed.hasBass /\ call.parsed.bass # <<>>)
              => SpellingFollowsInput(call.parsed.bass, call.newBass, semitonesA)

\* a flat root transposed to a pitch class that has a flat spelling
C7_Witness ==
    /\ pc = "once"
    /\ ~call.early
    /\ call.parsed.root \in FlatNames
    /\ call.newRoot \in FlatNames
    /\ call.newRoot # call.parsed.root

----------------------------------------------------------------------------
(* Properties of the line parser *)

\* s[i..j] is '[' + one or more non-']' characters + ']'
IsChordToken(s, i, j) ==
    /\ s[i] = "["
    /\ s[j] = "]"
    /\ j >= i + 2
    /\ \A k \in (i + 1)..(j - 1) : s[k] # "]"

ContainsChordToken(s) ==
    \E i \in 1..Len(s) : \E j \in i..Len(s) : IsChordToken(s, i, j)

\* the raw line written back from lyrics and chords, chord k followed by a
\* space iff spaces[k]; from is the number of lyric characters already written
RECURSIVE Reassemble(_, _, _, _)
Reassemble(lyrics, chords, spaces, from) ==
    IF chords = <<>> THEN SliceFrom(lyrics, from)
    ELSE Slice(lyrics, from, Head(chords).position)
            \o <<"[">> \o Head(chords).chord \o <<"]">>
            \o (IF Head(spaces) THEN <<" ">> ELSE <<>>)
            \o Reassemble(lyrics, Tail(chords), Tail(spaces), Head(chords).position)

Positions(chords) == [k \in 1..Len(chords) |-> chords[k].position]

ChordTexts(chords) == [k \in 1..Len(chords) |-> chords[k].chord]

C3_LineRoundTripStable ==
    pc = "reparsed" =>
        /\ reparsedLine.lyrics = parsedLine.lyrics
        /\ Positions(reparsedLine.chords) = Positions(parsedLine.chords)

\* C9: a line made only of n chord tokens separated by single spaces parses to
\* n - 1 spaces of lyrics and chords at positions 0, 1, ..., n - 1.
C9_ChordsOnlyPositions ==
    pc = "parsed" =>
        \A names \in SeqsUpTo(ChordNames, MaxTokens) \ {<<>>} :
            raw = ChordsOnly(names) =>
                /\ parsedLine.lyrics = Spaces(Len(names) - 1)
                /\ ChordTexts(parsedLine.chords) = names
                /\ Positions(parsedLine.chords) = [k \in 1..Len(names) |-> k - 1]

----------------------------------------------------------------------------
(* Properties of the document parser and of the round trip through text *)

IsCommentLine(rawLine) == StartsWith(Trim(rawLine), <<"#">>)

IsDirectiveLine(rawLine) == ~IsCommentLine(rawLine) /\ ParseDirective(Trim(rawLine)).found

\* the normalized directive name of a directive line
DirectiveName(rawLine) == NormalizeDirective(ParseDirective(Trim(rawLine)).name)

IsStartLine(rawLine) ==
    IsDirectiveLine(rawLine) /\ StartsWith(DirectiveName(rawLine), START_OF)

IsEndLine(rawLine) ==
    IsDirectiveLine(rawLine) /\ StartsWith(DirectiveName(rawLine), END_OF)

\* the Lines that the input lines from..to stand for: comments and directives
\* give none, a blank line gives the empty Line, any other line its parseLine
RECURSIVE ContentLines(_, _, _)
ContentLines(ls, from, to) ==
    IF from > to THEN <<>>
    ELSE (IF IsCommentLine(ls[from]) \/ IsDirectiveLine(ls[from]) THEN <<>>
          ELSE IF Trim(ls[from]) = <<>> THEN <<EmptyLine>>
          ELSE <<ParseLine(ls[from])>>)
         \o ContentLines(ls, from + 1, to)

\* index of the first start or end directive after line d, or Len(ls) + 1
NextSectionDirective(ls, d) ==
    IF \E e \in (d + 1)..Len(ls) : IsStartLine(ls[e]) \/ IsEndLine(ls[e])
    THEN CHOOSE e \in (d + 1)..Len(ls) :
            /\ IsStartLine(ls[e]) \/ IsEndLine(ls[e])
            /\ \A k \in (d + 1)..(e - 1) : ~IsStartLine(ls[k]) /\ ~IsEndLine(ls[k])
    ELSE Len(ls) + 1

\* line d opens a section that no end directive closes
OpensUnclosedSection(ls, d) ==
    /\ IsStartLine(ls[d])
    /\ LET e == NextSectionDirective(ls, d)
       IN e = Len(ls) + 1 \/ IsStartLine(ls[e])

\* the section that start line d opens, with everything accumulated in it
SectionOpenedAt(ls, d) ==
    [type |-> SliceFrom(DirectiveName(ls[d]), Len(START_OF)),
     label |-> LET v == ParseDirective(Trim(ls[d])).value
               IN IF v = <<>> THEN Undefined ELSE Some(v),
     lines |-> ContentLines(ls, d + 1, NextSectionDirective(ls, d) - 1)]

IsSectionOf(sng, section) == \E i \in 1..Len(sng.sections) : sng.sections[i] = section

\* C10 as stated: for every input in which a start directive opens a section
\* that no end directive closes, the returned Song contains that section, with
\* its type, holding every line accumulated after the start directive.
C10_UnclosedSectionEmitted ==
    pc = "parsed" =>
        \A d \in 1..Len(lines) :
            OpensUnclosedSection(lines, d) => IsSectionOf(song, SectionOpenedAt(lines, d))

\* C10 as amended: the same, for a section in which at least one line (a blank
\* line included) was accumulated; a section with no lines is not emitted.
C10_UnclosedSectionWithLinesEmitted ==
    pc = "parsed" =>
        \A d \in 1..Len(lines) :
            (OpensUnclosedSection(lines, d) /\ SectionOpenedAt(lines, d).lines # <<>>)
                => IsSectionOf(song, SectionOpenedAt(lines, d))

\* the input ended inside an explicit section that holds lines
C10_Witness ==
    /\ pc = "parsed"
    /\ inSection
    /\ Len(currentSection.lines) > 0
    /\ OpensUnclosedSection(lines, Len(lines) - Len(currentSection.lines))

Metadata(sng) == <<sng.title, sng.subtitle, sng.artist, sng.key, sng.capo, sng.tempo>>

RECURSIVE AllLines(_)
AllLines(sections) ==
    IF sections = <<>> THEN <<>>
    ELSE Head(sections).lines \o AllLines(Tail(sections))

\* the chord texts, in order, of every line that carries chords
RECURSIVE ChordedLines(_)
ChordedLines(ls) ==
    IF ls = <<>> THEN <<>>
    ELSE (IF Head(ls).chords = <<>> THEN <<>> ELSE <<ChordTexts(Head(ls).chords)>>)
         \o ChordedLines(Tail(ls))

\* C1: for every Song parseChordPro produces, parsing
\* fromEditableSong(toEditableSong(S)) gives the same metadata and, line by
\* line, the same chord texts in the same order.
C1_RoundTripKeepsChords ==
    pc = "reparsed" =>
        /\ Metadata(again) = Metadata(song)
        /\ ChordedLines(AllLines(again.sections)) = ChordedLines(AllLines(song.sections))

\* C2: re-parsing fromEditableSong(E) gives as many sections as E has and,
\* section by section, the same type, label and number of lines.
C2_RoundTripKeepsSections ==
    pc = "reparsed" =>
        /\ Len(again.sections) = Len(editable.sections)
        /\ \A i \in 1..Min(Len(again.sections), Len(editable.sections)) :
              /\ again.sections[i].type = editable.sections[i].type
              /\ again.sections[i].label = editable.sections[i].label
              /\ Len(again.sections[i].lines) = Len(editable.sections[i].lines)

----------------------------------------------------------------------------
(* Properties of the chord-copy service *)

IsBlockDirective(ls, i) == GetSectionDirective(ls[i]).found

\* the last section directive before line i (1-based), or 0
LastDirectiveBefore(ls, i) ==
    IF \E d \in 1..(i - 1) : IsBlockDirective(ls, d)
    THEN CHOOSE d \in 1..(i - 1) :
            /\ IsBlockDirective(ls, d)
            /\ \A k \in (d + 1)..(i - 1) : ~IsBlockDirective(ls, k)
    ELSE 0

\* the kind of the block that is open just before line i, or Undefined
OpenKindAt(ls, i) ==
    LET d == LastDirectiveBefore(ls, i)
    IN IF d > 0 /\ GetSectionDirective(ls[d]).type = "start"
       THEN Some(GetSectionDirective(ls[d]).section)
       ELSE Undefined

\* the end directives before line i that close a block of the kind
ClosingsBefore(ls, kind, i) ==
    { e \in 1..(i - 1) :
        /\ IsBlockDirective(ls, e)
        /\ GetSectionDirective(ls[e]).type = "end"
        /\ OpenKindAt(ls, e) = Some(kind) }

\* line i is a line of a verse or chorus block
InBlock(ls, i) == ~IsBlockDirective(ls, i) /\ OpenKindAt(ls, i) # Undefined

\* line i is a line of a second or later block of its kind
InLaterBlock(ls, i) ==
    /\ InBlock(ls, i)
    /\ ClosingsBefore(ls, OpenKindAt(ls, i)[1], i) # {}

\* the output has line i of the input, unchanged, in its place
OutputUnchanged(i) == i <= Len(resultLines) /\ resultLines[i] = lines[i]

\* C11: every line of a second or later verse or chorus block that already
\* contains a chord bracket is output unchanged.
C11_ChordedLinesUnchanged ==
    pc = "copied" =>
        \A i \in 1..Len(lines) :
            InLaterBlock(lines, i) /\ LineHasChords(lines[i]) => OutputUnchanged(i)

\* C12: every line outside a verse or chorus block, and every section
\* directive line, is copied unchanged; content without verse or chorus
\* directives is returned as it was given, line endings included.
C12_OutsideCopiedVerbatim ==
    pc = "copied" =>
        /\ \A i \in 1..Len(lines) : ~InBlock(lines, i) => OutputUnchanged(i)
        /\ (\A i \in 1..Len(lines) : ~IsBlockDirective(lines, i)) => output = content

----------------------------------------------------------------------------
(* Properties of the document parser: empty lines and sections *)

\* the line that the for loop of parseChordPro consumes next
NextRawLine == lines[lineNo + 1]

IsContentLine(rawLine) ==
    /\ Trim(rawLine) # <<>>
    /\ ~IsCommentLine(rawLine)
    /\ ~IsDirectiveLine(rawLine)

HasSectionDirective(ls) == \E d \in 1..Len(ls) : IsStartLine(ls[d]) \/ IsEndLine(ls[d])

\* C14: two chord/lyric lines outside any explicit section that are separated
\* by an empty line are placed in two different sections.
C14_EmptyLineBreaksSection ==
    (pc = "parsed" /\ ~HasSectionDirective(lines)) =>
        \A i, j, k \in 1..Len(lines) :
            (i < j /\ j < k /\ IsContentLine(lines[i]) /\ Trim(lines[j]) = <<>>
                   /\ IsContentLine(lines[k]))
            => Len(song.sections) >= 2

\* C15: every section of the song has at least one line, while it is built,
\* when it is returned and after the round trip.
C15_NoEmptySection ==
    /\ \A k \in 1..Len(song.sections) : Len(song.sections[k].lines) >= 1
    /\ \A k \in 1..Len(again.sections) : Len(again.sections[k].lines) >= 1

\* a start directive directly followed by an end directive produced no section
C15_Witness ==
    /\ pc = "parsed"
    /\ \E d \in 1..(Len(lines) - 1) : IsStartLine(lines[d]) /\ IsEndLine(lines[d + 1])
    /\ song.sections = <<>>

\* the sections that the lines before line d produce
SectionsBefore(ls, d) == FinalSong(ParseLoop(ParserStart, SubSeq(ls, 1, d - 1))).sections

----------------------------------------------------------------------------
(* Properties of the chord-copy service: the recorded pattern *)

\* the end directive that closes the first block of the kind before line i
FirstClosing(ls, kind, i) ==
    CHOOSE e \in ClosingsBefore(ls, kind, i) :
        \A f \in ClosingsBefore(ls, kind, i) : e <= f

\* the chords inserted into the line with every position clamped to the
\* line's length
InsertClamped(line, chords) ==
    CopyInsertChordsIntoLine(line,
        [k \in 1..Len(chords) |->
            [chords[k] EXCEPT !.position = Min(@, Len(line))]])

\* what the claim expects of line i, a non-blank line without chords in a block
PatternAppliedTo(i) ==
    LET kind == OpenKindAt(lines, i)[1]
        index == i - LastDirectiveBefore(lines, i) - 1
    IN IF ClosingsBefore(lines, kind, i) = {}
       THEN OutputUnchanged(i)
       ELSE LET e0 == FirstClosing(lines, kind, i)
                s0 == LastDirectiveBefore(lines, e0)
            IN IF index >= e0 - s0 - 1
               THEN OutputUnchanged(i)
               ELSE LET recorded == ExtractChordsFromLine(lines[s0 + 1 + index]).chords
                    IN recorded # <<>> =>
                        /\ i <= Len(resultLines)
                        /\ resultLines[i] = InsertClamped(lines[i], recorded)

\* C17: in a verse (chorus) block after the first closed verse (chorus), a
\* non-blank line without chords whose counterpart in the first block has
\* chords is output with those chords inserted at their recorded positions,
\* clamped to the line's length; lines past the first block's length and lines
\* of a kind with no closed first block are output unchanged.
C17_PatternApplied ==
    pc = "copied" =>
        \A i \in 1..Len(lines) :
            (InBlock(lines, i) /\ Trim(lines[i]) # <<>> /\ ~LineHasChords(lines[i]))
            => PatternAppliedTo(i)

\* the pattern recorded for the kind: Undefined before its first block closes
RecordedPattern(kind) == IF kind = VERSE THEN firstVerseChords ELSE firstChorusChords

\* C18: the chords recorded for each line of the first verse and of the first
\* chorus are the chords that parseLine returns for that line.
C18_PatternIsParseLine ==
    \A kind \in {VERSE, CHORUS} :
        RecordedPattern(kind) # Undefined =>
            LET e0 == FirstClosing(lines, kind, Len(lines) + 1)
                s0 == LastDirectiveBefore(lines, e0)
            IN \A j \in 1..Len(RecordedPattern(kind)[1]) :
                RecordedPattern(kind)[1][j].chords = ParseLine(lines[s0 + j]).chords

----------------------------------------------------------------------------
(* Properties of the serializer: positions past the end of the line *)

\* the chords of the line being serialized that lie within / past the lyrics
ChordsInRange == SelectSeq(parsedLine.chords, LAMBDA c : c.position <= Len(parsedLine.lyrics))

ChordsPastEnd == SelectSeq(parsedLine.chords, LAMBDA c : c.position > Len(parsedLine.lyrics))

\* the tokens [chord] of the chords, in the order given, with nothing between
RECURSIVE BareTokens(_)
BareTokens(chords) ==
    IF chords = <<>> THEN <<>>
    ELSE <<"[">> \o Head(chords).chord \o <<"]">> \o BareTokens(Tail(chords))

Orderings(chords) ==
    { [k \in 1..Len(chords) |-> chords[f[k]]] :
        f \in { g \in [1..Len(chords) -> 1..Len(chords)] :
                    \A a, b \in 1..Len(chords) : g[a] = g[b] => a = b } }

\* the text is the lyrics with the in-range chords inserted, then (after the
\* separating space that a chord at the very end of the lyrics gets) the bare
\* tokens of the chords past the end, in some order
AppendedAtEnd(text) ==
    \E ordered \in Orderings(ChordsPastEnd) :
      \E gap \in {<<>>, <<" ">>} :
        text = InsertChordsIntoLine(parsedLine.lyrics,
                                    ToEditableChords(ChordsInRange, 0, 0))
               \o gap \o BareTokens(ordered)

\* C19: a chord whose position is greater than the line's length is emitted
\* as [chord] appended at the end of the line, with no padding and no
\* trailing space, and the lyric characters stay as they are.
C19_PastEndAppended ==
    (pc = "serialized" /\ ChordsPastEnd # <<>>) => AppendedAtEnd(lineText)

----------------------------------------------------------------------------
(* Properties of the document parser: directive names *)

\* C20: a title or subtitle directive, its name in any case or short form
\* (t, st, su) and with spaces around the name and the value, sets the title
\* or the subtitle to the value without the surrounding spaces.
C20_DirectiveNamesNormalized ==
    pc = "parsed" =>
        \A value \in DirectiveValues, p1, p2, p3, p4 \in Pads \cup {Spaces(3)} :
            /\ \A name \in TitleNames :
                content = DirectiveText(name, value, p1, p2, p3, p4)
                => song.title = Some(value) /\ song.subtitle = Undefined
            /\ \A name \in SubtitleNames :
                content = DirectiveText(name, value, p1, p2, p3, p4)
                => song.subtitle = Some(value) /\ song.title = Undefined

\* {TITLE:   Spaced Title   } was parsed and gave the title Spaced Title
C20_Witness ==
    /\ pc = "parsed"
    /\ content = SpacedTitle
    /\ song.title = Some(<<"S", "p", "a", "c", "e", "d", " ", "T", "i", "t", "l", "e">>)

----------------------------------------------------------------------------
(* Properties of the storage service: the unique filename *)

\* the songs the storage holds: the .pro files of the songs directory
StoredSongs(storage) ==
    { name \in {SliceFrom(path, Len(SongsDirectory)) :
                   path \in {k \in DOMAIN storage :
                               Slice(k, 0, Len(SongsDirectory)) = SongsDirectory}} :
        Len(name) >= Len(PRO) /\ SliceFrom(name, Len(name) - Len(PRO)) = PRO }

\* n written with four decimal digits
FourDigits(n) ==
    LET digit(k) == Digits[(k % 10) + 1]
    IN <<digit(n \div 1000), digit(n \div 100), digit(n \div 10), digit(n)>>

\* title NNNN.pro
SuffixedName(title, n) == title \o <<" ">> \o FourDigits(n) \o PRO

\* the suffixes generateUniqueFilename may use
Suffixes == 1..(CounterLimit - 1)

\* the stored songs a call must not collide with, when it chooses its name
OtherSongs(c) == StoredSongs(sharedMemoryStorage) \ {saves[c].currentFilename}

\* C21: generateUniqueFilename(title, exclude) returns title.pro when no
\* stored song other than exclude has that name; otherwise title NNNN.pro
\* for the smallest suffix no stored song other than exclude uses; the name
\* is never the name of a stored song other than exclude; and when every
\* suffix is taken it fails with an error instead of returning a name.
C21_UniqueFilename ==
    \A c \in DOMAIN saves :
        LET title == saves[c].newTitle
            others == OtherSongs(c)
            allTaken == /\ title \o PRO \in others
                        /\ \A n \in Suffixes : SuffixedName(title, n) \in others
        IN /\ saves[c].pc = "named" =>
                /\ title \o PRO \notin others => saves[c].newFilename = title \o PRO
                /\ title \o PRO \in others =>
                      \E n \in Suffixes :
                          /\ saves[c].newFilename = SuffixedName(title, n)
                          /\ \A m \in 1..(n - 1) : SuffixedName(title, m) \in others
                /\ saves[c].newFilename \notin others
           /\ saves[c].pc = "threw" => allTaken
           /\ (saves[c].pc \in {"named", "threw"} /\ allTaken) => saves[c].pc = "threw"

\* every name of the title is taken by another song, and the call failed
C21_Witness ==
    \E c \in DOMAIN saves :
        /\ saves[c].pc = "threw"
        /\ saves[c].currentFilename \notin TakenNames
        /\ TakenNames \subseteq StoredSongs(sharedMemoryStorage)

----------------------------------------------------------------------------
(* Properties of the storage service: save with rename *)

\* the title the document parser gives the content: Undefined when there is
\* none or it is empty
ParsedTitle(text) ==
    LET parsed == ParseChordPro(text)
    IN IF parsed.threw \/ parsed.song.title = Some(<<>>) THEN Undefined
       ELSE parsed.song.title

\* T.pro or T with a numeric suffix
NamesOfTitle(title) ==
    {title \o PRO} \cup {SuffixedName(title, n) : n \in Suffixes}

\* text is what the storage holds under the filename
StoredUnder(filename, text) ==
    /\ PathOf(filename) \in DOMAIN sharedMemoryStorage
    /\ sharedMemoryStorage[PathOf(filename)] = text

\* no file other than the two named was created, overwritten or deleted
OnlyTouched(filenames) ==
    \A path \in (DOMAIN sharedMemoryStorage \cup DOMAIN storedAtStart)
                    \ {PathOf(filename) : filename \in filenames} :
        /\ path \in DOMAIN sharedMemoryStorage
        /\ path \in DOMAIN storedAtStart
        /\ sharedMemoryStorage[path] = storedAtStart[path]

\* the effects of a completed saveSongWithRename, for the title given
SavedAs(c, title) ==
    LET current == saves[c].currentFilename
        returned == saves[c].returned
    IN /\ title # Undefined =>
              /\ returned \in NamesOfTitle(title[1])
              /\ StoredUnder(returned, saves[c].content)
              /\ returned # current => PathOf(current) \notin DOMAIN sharedMemoryStorage
       /\ title = Undefined =>
              /\ returned = current
              /\ StoredUnder(current, saves[c].content)
       /\ OnlyTouched({current, returned})

\* C22: after saveSongWithRename(current, content) completes, content with
\* a title directive {title: T} is stored under the returned filename, which
\* is T.pro or T with a numeric suffix, and the file named current is gone
\* when the name changed; content with no title is stored under current and
\* current is returned; no other stored song is created, overwritten or
\* deleted.
C22_SavedUnderTitle ==
    \A c \in DOMAIN saves :
        saves[c].pc = "returned" => SavedAs(c, ParsedTitle(saves[c].content))

----------------------------------------------------------------------------
(* Properties of the document parser: lines that produce nothing *)

\* the Song field a metadata directive name sets
MetadataFields ==
    [title |-> <<"t", "i", "t", "l", "e">>,
     subtitle |-> <<"s", "u", "b", "t", "i", "t", "l", "e">>,
     artist |-> <<"a", "r", "t", "i", "s", "t">>,
     key |-> <<"k", "e", "y">>,
     capo |-> <<"c", "a", "p", "o">>,
     tempo |-> <<"t", "e", "m", "p", "o">>]

IsMetadataLine(rawLine) ==
    /\ IsDirectiveLine(rawLine)
    /\ \E field \in DOMAIN MetadataFields : MetadataFields[field] = DirectiveName(rawLine)

\* a directive that is neither metadata nor a section start or end
IsUnrecognizedLine(rawLine) ==
    /\ IsDirectiveLine(rawLine)
    /\ ~IsMetadataLine(rawLine)
    /\ ~IsStartLine(rawLine)
    /\ ~IsEndLine(rawLine)

\* the parser went on to the next line with the sections, the accumulating
\* section and the inside/outside state as they were
ProducedNothing ==
    /\ pc' = "loop"
    /\ song'.sections = song.sections
    /\ currentSection' = currentSection
    /\ inSection' = inSection

\* C23: processing a comment line, a metadata directive or an unrecognized
\* directive leaves the emitted sections, the accumulating section and the
\* inside/outside-section state unchanged; a metadata directive changes only
\* its own Song field, a comment and an unrecognized directive change nothing.
C23_NothingProduced ==
    [][(pc = "loop" /\ lineNo < Len(lines)) =>
        /\ IsCommentLine(NextRawLine) => (ProducedNothing /\ song' = song)
        /\ IsUnrecognizedLine(NextRawLine) => (ProducedNothing /\ song' = song)
        /\ IsMetadataLine(NextRawLine) =>
              /\ ProducedNothing
              /\ \A field \in DOMAIN song :
                    (field \in DOMAIN MetadataFields
                        /\ MetadataFields[field] = DirectiveName(NextRawLine))
                    \/ song'[field] = song[field]]_vars

----------------------------------------------------------------------------
(* Properties of the document parser: capo and tempo *)

\* the document has the line {name: n}
HasNumberDirective(name, n) ==
    \E i \in 1..Len(lines) : lines[i] = NumberDirective(name, n)

\* C24: for every non-negative integer n, a document containing {capo: n}
\* parses to a Song with capo = n, and a document containing {tempo: n} to a
\* Song with tempo = n.
C24_NumbersParsed ==
    pc = "parsed" =>
        \A n \in 0..MaxNumber :
            /\ HasNumberDirective(<<"c", "a", "p", "o">>, n) => song.capo = Some(n)
            /\ HasNumberDirective(<<"t", "e", "m", "p", "o">>, n) => song.tempo = Some(n)

----------------------------------------------------------------------------
(* Properties of the document parser: section types *)

\* SectionType of chordpro-types
SectionTypes ==
    { <<"v", "e", "r", "s", "e">>, <<"c", "h", "o", "r", "u", "s">>, <<"b", "r", "i", "d", "g", "e">>, <<"i", "n", "t", "r", "o">>, <<"o", "u", "t", "r", "o">>, <<"t", "a", "b">>, <<"g", "r", "i", "d">>, <<"n", "o", "n", "e">> }

\* C25: every section of a Song returned by parseChordPro has a type among
\* verse, chorus, bridge, intro, outro, tab, grid and none, whatever the name
\* of the start directive.
C25_SectionTypes ==
    pc = "parsed" =>
        \A i \in 1..Len(song.sections) : song.sections[i].type \in SectionTypes

----------------------------------------------------------------------------
(* Properties of the document parser: content lines *)

\* the Lines of the sections, read in order
RECURSIVE LinesInOrder(_)
LinesInOrder(sections) ==
    IF sections = <<>> THEN <<>>
    ELSE Head(sections).lines \o LinesInOrder(Tail(sections))

\* the parseLine results of the input lines that are not comments, not
\* directives and not blank, in document order
RECURSIVE ParsedContent(_)
ParsedContent(ls) ==
    IF ls = <<>> THEN <<>>
    ELSE (IF IsContentLine(Head(ls)) THEN <<ParseLine(Head(ls))>> ELSE <<>>)
         \o ParsedContent(Tail(ls))

\* the Lines other than the empty Line that a blank input line stands for
WithoutEmptyLines(ls) == SelectSeq(ls, LAMBDA line : line # EmptyLine)

\* C26: parseChordPro neither drops, duplicates nor reorders content: every
\* input line that is not a comment, not a directive and not blank becomes
\* exactly one Line, its parseLine result, in exactly one section, and the
\* sections and their lines read in order give these Lines in document order,
\* whatever start and end directives surround them.
C26_ContentKept ==
    pc = "parsed" =>
        /\ WithoutEmptyLines(LinesInOrder(song.sections)) = ParsedContent(lines)
        /\ \A i \in 1..Len(lines) : IsContentLine(lines[i]) => ParseLine(lines[i]) # EmptyLine

\* two different content lines separated by a start directive: both Lines
\* are in the Song, in two sections
C26_Witness ==
    /\ pc = "parsed"
    /\ Len(lines) = 3
    /\ IsContentLine(lines[1])
    /\ IsStartLine(lines[2])
    /\ IsContentLine(lines[3])
    /\ lines[1] # lines[3]
    /\ Len(song.sections) = 2

----------------------------------------------------------------------------
(* Properties of the chord-copy service: no line is dropped *)

\* line i of the output is line i of the input, as it was or with chords added
KeptInPlace(i) ==
    \/ resultLines[i] = lines[i]
    \/ ~LineHasChords(lines[i]) /\ LineHasChords(resultLines[i])

\* C27: copyChordsToSections never drops a line: the output has as many lines
\* as the input and every input line is in it, unchanged or with chords
\* added, also when a verse or chorus is still open at the end of the input
\* and when a start directive comes before the previous block was closed.
C27_NoLineDropped ==
    pc = "copied" =>
        /\ Len(resultLines) = Len(lines)
        /\ \A i \in 1..Len(lines) : KeptInPlace(i)

----------------------------------------------------------------------------
(* Properties of the serializer: the chords survive a re-parse *)

\* how many chords of the list have the text
TimesIn(chords, text) == Cardinality({k \in DOMAIN chords : chords[k].chord = text})

\* the two lists have the same chord texts, each as many times
SameChordTexts(a, b) ==
    \A text \in {a[k].chord : k \in DOMAIN a} \cup {b[k].chord : k \in DOMAIN b} :
        TimesIn(a, text) = TimesIn(b, text)

\* C28: for every line and every list of chords, several chords past the end
\* of the lyrics included, parsing the output of insertChordsIntoLine gives
\* the same multiset of chord texts as the input list: no chord token is
\* inserted inside the brackets of another.
C28_ChordTextsKept ==
    pc = "reparsed" => SameChordTexts(reparsedLine.chords, parsedLine.chords)

----------------------------------------------------------------------------
(* Properties of the storage service: two saves at once *)

\* the title that saveSongWithRename takes from the content
TitleOf(c) == ExtractTitle(saves[c].content).title

\* C29: two saveSongWithRename calls that interleave at their awaits, made
\* for two different current files whose contents carry the same title,
\* never return the same filename, so neither overwrites what the other
\* wrote.
C29_DistinctFilenames ==
    \A c, e \in DOMAIN saves :
        (/\ c # e
         /\ saves[c].pc = "returned"
         /\ saves[e].pc = "returned"
         /\ saves[c].currentFilename # saves[e].currentFilename
         /\ TitleOf(c) = TitleOf(e))
        => saves[c].returned # saves[e].returned

----------------------------------------------------------------------------
(* Properties of the chord-copy service: the block boundaries of the parser *)

\* what the document parser takes the line for: a verse or chorus start or
\* end directive, or neither
ParserBoundary(rawLine) ==
    IF ~IsDirectiveLine(rawLine) THEN [found |-> FALSE]
    ELSE LET name == DirectiveName(rawLine)
         IN CASE name = <<"s", "t", "a", "r", "t", "_", "o", "f", "_", "v", "e", "r", "s", "e">> -> [found |-> TRUE, type |-> "start", section |-> VERSE]
              [] name = <<"s", "t", "a", "r", "t", "_", "o", "f", "_", "c", "h", "o", "r", "u", "s">> -> [found |-> TRUE, type |-> "start", section |-> CHORUS]
              [] name = <<"e", "n", "d", "_", "o", "f", "_", "v", "e", "r", "s", "e">> -> [found |-> TRUE, type |-> "end", section |-> VERSE]
              [] name = <<"e", "n", "d", "_", "o", "f", "_", "c", "h", "o", "r", "u", "s">> -> [found |-> TRUE, type |-> "end", section |-> CHORUS]
              [] OTHER -> [found |-> FALSE]

\* copyChordsToSections takes the line for the same boundary
SameBoundary(rawLine) ==
    LET directive == GetSectionDirective(rawLine)
        boundary == ParserBoundary(rawLine)
    IN /\ directive.found
       /\ directive.type = boundary.type
       /\ directive.section = boundary.section

\* C30: copyChordsToSections and parseChordPro agree on the verse and chorus
\* boundaries: every line that the document parser treats as a verse or
\* chorus start or end directive, the labelled {sov: label} and {soc: label}
\* that fromEditableSong writes included, is a block boundary of
\* copyChordsToSections too.
C30_SameBoundaries ==
    pc = "output" =>
        \A i \in 1..Len(Split(output)) :
            ParserBoundary(Split(output)[i]).found => SameBoundary(Split(output)[i])

====
